---- MODULE Spec2Model ----
(***************************************************************************)
(* Vara CRM: the service layer (IntentService, RelationshipService), its   *)
(* rule engine (insights and next best actions), the pipeline analytics,   *)
(* the tenant-context session variable, the metrics buffer, the Logger     *)
(* and the stage-transition audit trigger.                                 *)
(*                                                                         *)
(* Units.  Probabilities and confidences are DECIMAL(3,2) / two-digit      *)
(* literals in the source and are held in hundredths (0.8 is 80).  Money   *)
(* is held in whole currency units.  Time is held in hours, so one day is  *)
(* HoursPerDay hours.  An optional value is a sequence of length 0 or 1.   *)
(***************************************************************************)
EXTENDS Integers, Sequences, FiniteSets, TLC

VARIABLES
    \* rule engine (generateNextBestActions on one materialized intent)
    intentData,     \* the intent record handed to the rule engine
    now,            \* Date.now() of the evaluation, in hours
    actions,        \* the list generateNextBestActions returned
    insights,       \* the list generateAIInsights returned
    rulePc,         \* "input" before the calls, "done" after them, "threw" if one threw
    \* service layer
    currentOrgId,   \* the session variable app.current_org_id ("" when cleared)
    measurements,   \* PerformanceMonitor.measurements
    ops,            \* the running service invocations, one per request slot
    \* storage
    intents,        \* the intents table, id -> row
    event_log,      \* the event_log table, in insertion order
    updates,        \* the updates applied to the intents table, in order
    \* telemetry
    recordCalls,    \* the samples handed to PerformanceMonitor.record, in call order
                    \* (kept by the monitor specification)
    logCall,        \* the Logger call under way: logger context, level, extra data
    emitted,        \* what the Logger wrote to the console, in order
    p95,            \* the getP95 call made and what it returned
    span,           \* a Span: its context, its finished flag, what finish() returned
    \* caller
    pages           \* the pages a caller collected while following list cursors

vars == <<intentData, now, actions, insights, rulePc, currentOrgId, measurements,
          ops, intents, event_log, updates, recordCalls, logCall, emitted, p95,
          span, pages>>

ruleVars == <<intentData, now, actions, insights, rulePc>>
svcVars == <<currentOrgId, measurements, ops>>
dbVars == <<intents, event_log, updates>>
telVars == <<recordCalls, logCall, emitted, p95, span>>
clientVars == <<pages>>

-----------------------------------------------------------------------------
(* Shared vocabulary *)

Stages == {"discovery", "qualification", "proposal", "negotiation",
           "closed-won", "closed-lost"}

HoursPerDay == 24

\* the instant (in hours) at which the modelled calls read the clock
Now == 1000

\* the rule engine's input while no evaluation is under way
NoIntent ==
    [stage |-> "discovery", probability |-> 0, value |-> 0, updated_at |-> 0,
     expected_close_date |-> <<>>]

\* Math.ceil(x / d) for d > 0 (x may be negative: Math.ceil rounds towards +inf)
CeilDiv(x, d) == -((-x) \div d)

\* calculateDaysInStage: ceil((now - updated_at) / one day); stage is unused
calculateDaysInStage(updatedAt, stage, t) == CeilDiv(t - updatedAt, HoursPerDay)

-----------------------------------------------------------------------------
(* Rule engine: generateNextBestActions *)

DiscoveryProbabilityBelow == 30
QualificationProbabilityAbove == 70
ProposalDaysAbove == 14
ExecutiveValueAbove == 100000
ProposalDueDays == 3

Action(type, title, priority, confidence, impact, effort, due) ==
    [type |-> type, title |-> title, priority |-> priority,
     confidence |-> confidence, estimated_impact |-> impact,
     estimated_effort |-> effort, due_date |-> due]

DiscoveryCall == Action("call", "Discovery Call", 2, 85, "high", "medium", <<>>)
SendProposal(t) ==
    Action("proposal", "Send Proposal", 1, 91, "high", "high",
           <<t + ProposalDueDays * HoursPerDay>>)
ProposalFollowUp ==
    Action("follow_up", "Proposal Follow-up", 1, 88, "medium", "low", <<>>)
NegotiationMeeting ==
    Action("meeting", "Negotiation Meeting", 1, 82, "high", "medium", <<>>)
ExecutiveMeeting ==
    Action("meeting", "Executive Meeting", 1, 79, "high", "high", <<>>)

\* mutant: the qualification and proposal thresholds are inclusive
StageActionsInclusive(d, t) ==
    CASE d.stage = "discovery" ->
           IF d.probability < DiscoveryProbabilityBelow
           THEN <<DiscoveryCall>> ELSE <<>>
      [] d.stage = "qualification" ->
           IF d.probability >= QualificationProbabilityAbove
           THEN <<SendProposal(t)>> ELSE <<>>
      [] d.stage = "proposal" ->
           IF calculateDaysInStage(d.updated_at, d.stage, t) >= ProposalDaysAbove
           THEN <<ProposalFollowUp>> ELSE <<>>
      [] d.stage = "negotiation" -> <<NegotiationMeeting>>
      [] OTHER -> <<>>

\* the switch on intentData.stage: at most one action
StageActions(d, t) ==
    CASE d.stage = "discovery" ->
           IF d.probability < DiscoveryProbabilityBelow
           THEN <<DiscoveryCall>> ELSE <<>>
      [] d.stage = "qualification" ->
           IF d.probability > QualificationProbabilityAbove
           THEN <<SendProposal(t)>> ELSE <<>>
      [] d.stage = "proposal" ->
           IF calculateDaysInStage(d.updated_at, d.stage, t) > ProposalDaysAbove
           THEN <<ProposalFollowUp>> ELSE <<>>
      [] d.stage = "negotiation" -> <<NegotiationMeeting>>
      [] OTHER -> <<>>

HasMeeting(acts) == \E i \in 1..Len(acts) : acts[i].type = "meeting"

\* mutant: the executive meeting is appended without the meeting-type check
ValueActionsNoDedupe(d, acts) ==
    IF d.value > ExecutiveValueAbove
    THEN Append(acts, ExecutiveMeeting) ELSE acts

\* mutant: the threshold is inclusive
ValueActionsInclusive(d, acts) ==
    IF d.value >= ExecutiveValueAbove /\ ~HasMeeting(acts)
    THEN Append(acts, ExecutiveMeeting) ELSE acts

\* the value-based addendum
ValueActions(d, acts) ==
    IF d.value > ExecutiveValueAbove /\ ~HasMeeting(acts)
    THEN Append(acts, ExecutiveMeeting) ELSE acts

\* the comparator given to Array.prototype.sort
CompareActions(a, b) ==
    IF a.priority # b.priority THEN a.priority - b.priority
    ELSE b.confidence - a.confidence

\* x placed after every element that does not compare greater (stable)
RECURSIVE InsertAction(_, _)
InsertAction(x, s) ==
    IF s = <<>> THEN <<x>>
    ELSE IF CompareActions(Head(s), x) <= 0
         THEN <<Head(s)>> \o InsertAction(x, Tail(s))
         ELSE <<x>> \o s

RECURSIVE SortFrom(_, _)
SortFrom(sorted, rest) ==
    IF rest = <<>> THEN sorted
    ELSE SortFrom(InsertAction(Head(rest), sorted), Tail(rest))

\* mutant: the list is returned in generation order
SortActionsNone(acts) == acts

\* actions.sort(comparator): a stable sort
SortActions(acts) == SortFrom(<<>>, acts)

generateNextBestActions(d, t) ==
    SortActions(ValueActions(d, StageActions(d, t)))

\* mutant: confidences are validated as if they were whole numbers
NextBestActionSchemaWhole(a) ==
    /\ a.type \in {"call", "email", "meeting", "follow_up", "proposal", "demo"}
    /\ a.title # ""
    /\ a.priority >= 1 /\ a.priority <= 10
    /\ a.confidence >= 0 /\ a.confidence <= 1
    /\ a.estimated_impact \in {"low", "medium", "high"}
    /\ a.estimated_effort \in {"low", "medium", "high"}

\* whether NextBestActionSchema.parse accepts the action (it throws otherwise)
NextBestActionSchemaOk(a) ==
    /\ a.type \in {"call", "email", "meeting", "follow_up", "proposal", "demo"}
    /\ a.title # ""
    /\ a.priority >= 1 /\ a.priority <= 10
    /\ a.confidence >= 0 /\ a.confidence <= 100
    /\ a.estimated_impact \in {"low", "medium", "high"}
    /\ a.estimated_effort \in {"low", "medium", "high"}

\* whether generateNextBestActions throws on d: one of its parse calls rejects
ActionsThrow(d, t) ==
    LET acts == ValueActions(d, StageActions(d, t))
    IN  \E i \in 1..Len(acts) : ~NextBestActionSchemaOk(acts[i])

-----------------------------------------------------------------------------
(* Rule engine: generateAIInsights *)

HighProbabilityAbove == 80
HighValueAbove == 50000
ClosingSoonDaysBelow == 30
ExtendedStageDaysAbove == 30

Insight(type, title, confidence, impact, metadata) ==
    [type |-> type, title |-> title, confidence |-> confidence,
     impact |-> impact, metadata |-> metadata]

\* intentData.expected_close_date: absent from the record, null, or a date
ExpectedCloseDate(d) ==
    IF "expected_close_date" \in DOMAIN d THEN d.expected_close_date ELSE <<>>

\* Math.ceil((close date - Date.now()) / one day)
DaysToClose(close, t) == CeilDiv(close - t, HoursPerDay)

\* mutant: the probability threshold is inclusive
BehavioralInsightsInclusive(d) ==
    IF d.probability >= HighProbabilityAbove /\ d.stage = "qualification"
    THEN <<Insight("behavioral", "High Conversion Probability Detected", 92, "high",
                   [probability |-> d.probability, stage |-> d.stage])>>
    ELSE <<>>

\* behavioural insight on stage and probability
BehavioralInsights(d) ==
    IF d.probability > HighProbabilityAbove /\ d.stage = "qualification"
    THEN <<Insight("behavioral", "High Conversion Probability Detected", 92, "high",
                   [probability |-> d.probability, stage |-> d.stage])>>
    ELSE <<>>

\* mutant: the horizon is inclusive
PredictiveInsightsInclusive(d, t) ==
    IF d.value > HighValueAbove /\ ExpectedCloseDate(d) # <<>>
    THEN LET daysToClose == DaysToClose(ExpectedCloseDate(d)[1], t)
         IN  IF daysToClose <= ClosingSoonDaysBelow
             THEN <<Insight("predictive", "High-Value Deal Closing Soon", 85, "high",
                            [value |-> d.value, days_to_close |-> daysToClose])>>
             ELSE <<>>
    ELSE <<>>

\* predictive insight on value and timeline
PredictiveInsights(d, t) ==
    IF d.value > HighValueAbove /\ ExpectedCloseDate(d) # <<>>
    THEN LET daysToClose == DaysToClose(ExpectedCloseDate(d)[1], t)
         IN  IF daysToClose < ClosingSoonDaysBelow
             THEN <<Insight("predictive", "High-Value Deal Closing Soon", 85, "high",
                            [value |-> d.value, days_to_close |-> daysToClose])>>
             ELSE <<>>
    ELSE <<>>

\* mutant: the stage is not looked at
ContextualInsightsAnyStage(d, t) ==
    LET daysInStage == calculateDaysInStage(d.updated_at, d.stage, t)
    IN  IF daysInStage > ExtendedStageDaysAbove
        THEN <<Insight("contextual", "Extended Stage Duration", 78, "medium",
                       [days_in_stage |-> daysInStage, stage |-> d.stage])>>
        ELSE <<>>

\* contextual insight on stage duration
ContextualInsights(d, t) ==
    LET daysInStage == calculateDaysInStage(d.updated_at, d.stage, t)
    IN  IF daysInStage > ExtendedStageDaysAbove /\ d.stage # "discovery"
        THEN <<Insight("contextual", "Extended Stage Duration", 78, "medium",
                       [days_in_stage |-> daysInStage, stage |-> d.stage])>>
        ELSE <<>>

generateAIInsights(d, t) ==
    BehavioralInsights(d) \o PredictiveInsights(d, t) \o ContextualInsights(d, t)

\* whether AIInsightSchema.parse accepts the insight (it throws otherwise)
AIInsightSchemaOk(x) ==
    /\ x.type \in {"behavioral", "predictive", "contextual", "competitive"}
    /\ x.title # ""
    /\ x.confidence >= 0 /\ x.confidence <= 100
    /\ x.impact \in {"low", "medium", "high"}

\* whether generateAIInsights throws on d: one of its parse calls rejects
InsightsThrow(d, t) ==
    LET found == generateAIInsights(d, t)
    IN  \E i \in 1..Len(found) : ~AIInsightSchemaOk(found[i])

-----------------------------------------------------------------------------
(* Storage as the services see it: row-level security and the query builder *)

Orgs == {"orgA", "orgB"}

MinLimit == 1
MaxLimit == 100
DefaultLimit == 20

\* the limit of the parsed parameters: limit: z.number().min(1).max(100).default(20)
Limit(params) == IF params.limit = <<>> THEN DefaultLimit ELSE params.limit[1]

\* z.string().uuid(): identifiers are positive integers, 0 is a malformed id
IsUUID(id) == id > 0

\* the intents table read by the services (metadata is a nullable JSONB column)
SvcIntents ==
    <<[id |-> 1, org_id |-> "orgA", stage |-> "negotiation", probability |-> 60,
       value |-> 120000, updated_at |-> 900, metadata |-> "{}",
       expected_close_date |-> <<1480>>],
      [id |-> 2, org_id |-> "orgA", stage |-> "discovery", probability |-> 20,
       value |-> 150000, updated_at |-> 950, metadata |-> "{}",
       expected_close_date |-> <<>>],
      [id |-> 3, org_id |-> "orgA", stage |-> "closed-won", probability |-> 100,
       value |-> 50000, updated_at |-> 800, metadata |-> "null",
       expected_close_date |-> <<>>],
      [id |-> 4, org_id |-> "orgB", stage |-> "closed-lost", probability |-> 0,
       value |-> 0, updated_at |-> 700, metadata |-> "{}",
       expected_close_date |-> <<>>]>>

\* the relationships table (tags is a nullable TEXT[] column)
relationships ==
    <<[id |-> 1, org_id |-> "orgA", updated_at |-> 910, tags |-> "[]"],
      [id |-> 2, org_id |-> "orgA", updated_at |-> 920, tags |-> "[]"],
      [id |-> 3, org_id |-> "orgB", updated_at |-> 930, tags |-> "null"]>>

TableOf(kind) ==
    IF kind \in {"relationship.get", "relationship.list"} THEN relationships
    ELSE intents

\* the policy USING (org_id = current_setting('app.current_org_id')::UUID)
Visible(table, ctx) ==
    LET Keep(row) == row.org_id = ctx IN SelectSeq(table, Keep)

\* .eq('id', id)
WithId(rows, id) ==
    LET Keep(row) == row.id = id IN SelectSeq(rows, Keep)

\* if (cursor) query.gt('id', cursor)
AfterCursor(rows, cursor) ==
    LET Keep(row) == cursor = <<>> \/ row.id > cursor[1] IN SelectSeq(rows, Keep)

\* mutant: the stage fetch keeps the lost deals
NotClosedLostNone(rows) ==
    LET Keep(row) == row.stage \in Stages IN SelectSeq(rows, Keep)

\* .neq('stage', 'closed-lost')
NotClosedLost(rows) ==
    LET Keep(row) == row.stage # "closed-lost" IN SelectSeq(rows, Keep)

\* .in('stage', ['closed-won', 'closed-lost'])
Closed(rows) ==
    LET Keep(row) == row.stage \in {"closed-won", "closed-lost"}
    IN  SelectSeq(rows, Keep)

RECURSIVE InsertRowDesc(_, _)
InsertRowDesc(x, s) ==
    IF s = <<>> THEN <<x>>
    ELSE IF Head(s).updated_at >= x.updated_at
         THEN <<Head(s)>> \o InsertRowDesc(x, Tail(s))
         ELSE <<x>> \o s

RECURSIVE OrderByUpdatedDesc(_)
\* .order('updated_at', { ascending: false })
OrderByUpdatedDesc(s) ==
    IF s = <<>> THEN <<>>
    ELSE InsertRowDesc(Head(s), OrderByUpdatedDesc(Tail(s)))

Min(a, b) == IF a < b THEN a ELSE b

FetchResult(data, error, count) == [data |-> data, error |-> error, count |-> count]

\* a request that fails in transport or in the database
FailedFetches(ctx) ==
    {FetchResult(<<>>, <<"connection failed">>, <<>>)}

\* the cast ''::UUID of a cleared session variable fails the statement
ContextError == FetchResult(<<>>, <<"invalid input syntax for type uuid">>, <<>>)

\* .eq('id', id).single(): one row, or no row (which the client may report
\* either as data null alone or with its own no-rows error)
SingleResults(table, id, ctx) ==
    FailedFetches(ctx) \cup
    IF ctx = "" THEN {ContextError}
    ELSE LET rows == WithId(Visible(table, ctx), id)
         IN  IF rows # <<>> THEN {FetchResult(<<rows[1]>>, <<>>, <<>>)}
             ELSE {FetchResult(<<>>, <<>>, <<>>),
                   FetchResult(<<>>, <<"no rows returned">>, <<>>)}

\* .gt('id', cursor).order(...).limit(limit + 1) with { count: 'exact' }
ListResults(table, params, ctx) ==
    FailedFetches(ctx) \cup
    IF ctx = "" THEN {ContextError}
    ELSE LET rows == OrderByUpdatedDesc(
                         AfterCursor(Visible(table, ctx), params.cursor))
         IN  {FetchResult(SubSeq(rows, 1, Min(Len(rows), Limit(params) + 1)),
                          <<>>, <<Len(rows)>>)}

\* .select('stage, value, probability, created_at, updated_at'): the columns the
\* stage fetch asks for (created_at is not used and not held)
StageColumns(rows) ==
    [i \in 1..Len(rows) |->
        [stage |-> rows[i].stage, value |-> rows[i].value,
         probability |-> rows[i].probability, updated_at |-> rows[i].updated_at]]

\* .select('stage')
ClosedColumns(rows) == [i \in 1..Len(rows) |-> [stage |-> rows[i].stage]]

\* getPipelineAnalytics, first fetch
StageDataResults(table, ctx) ==
    FailedFetches(ctx) \cup
    IF ctx = "" THEN {ContextError}
    ELSE {FetchResult(StageColumns(NotClosedLost(Visible(table, ctx))),
                      <<>>, <<>>)}

\* getPipelineAnalytics, second fetch
ClosedDataResults(table, ctx) ==
    FailedFetches(ctx) \cup
    IF ctx = "" THEN {ContextError}
    ELSE {FetchResult(ClosedColumns(Closed(Visible(table, ctx))),
                      <<>>, <<>>)}

-----------------------------------------------------------------------------
(* Pipeline analytics: the aggregations of getPipelineAnalytics *)

\* a quotient a / b, kept exact as numerator and denominator
Ratio(a, b) == [num |-> a, den |-> b]
Zero == Ratio(0, 1)

\* reduce((sum, x) => sum + x, 0)
RECURSIVE Sum(_)
Sum(xs) == IF xs = <<>> THEN 0 ELSE Head(xs) + Sum(Tail(xs))

Values(rows) == [i \in 1..Len(rows) |-> rows[i].value]
Probabilities(rows) == [i \in 1..Len(rows) |-> rows[i].probability]
\* value * probability, in hundredths of a currency unit
Weighted(rows) == [i \in 1..Len(rows) |-> rows[i].value * rows[i].probability]
DaysInStage(rows, t) ==
    [i \in 1..Len(rows) |-> calculateDaysInStage(rows[i].updated_at, rows[i].stage, t)]

\* mutant: closed-lost gets an entry of its own
MetricStagesAll ==
    <<"discovery", "qualification", "proposal", "negotiation", "closed-won",
      "closed-lost">>

\* const stages = [...]
MetricStages == <<"discovery", "qualification", "proposal", "negotiation", "closed-won">>

\* mutant: the averages are divided without the count > 0 test
calculateStageMetricsUnguarded(rows, t) ==
    [k \in 1..Len(MetricStages) |->
        LET Keep(row) == row.stage = MetricStages[k]
            stageIntents == SelectSeq(rows, Keep)
            count == Len(stageIntents)
            totalValue == Sum(Values(stageIntents))
        IN  [stage |-> MetricStages[k], count |-> count, total_value |-> totalValue,
             avg_value |-> Ratio(totalValue, count),
             avg_probability |-> Ratio(Sum(Probabilities(stageIntents)), count),
             avg_days_in_stage |-> Ratio(Sum(DaysInStage(stageIntents, t)), count)]]

calculateStageMetrics(rows, t) ==
    [k \in 1..Len(MetricStages) |->
        LET Keep(row) == row.stage = MetricStages[k]
            stageIntents == SelectSeq(rows, Keep)
            count == Len(stageIntents)
            totalValue == Sum(Values(stageIntents))
        IN  [stage |-> MetricStages[k], count |-> count, total_value |-> totalValue,
             avg_value |-> IF count > 0 THEN Ratio(totalValue, count) ELSE Zero,
             avg_probability |->
                 IF count > 0 THEN Ratio(Sum(Probabilities(stageIntents)), count)
                 ELSE Zero,
             avg_days_in_stage |->
                 IF count > 0 THEN Ratio(Sum(DaysInStage(stageIntents, t)), count)
                 ELSE Zero]]

calculateVelocityMetrics ==
    [avg_days_to_close |-> 45, avg_days_discovery_to_qualification |-> 7,
     avg_days_qualification_to_proposal |-> 14,
     avg_days_proposal_to_negotiation |-> 10, avg_days_negotiation_to_close |-> 14]

ForecastConfidence == 82

\* mutant: the rows with a close date after now + days
ClosingByAfter(rows, t, days) ==
    LET Keep(row) == /\ ExpectedCloseDate(row) # <<>>
                     /\ ExpectedCloseDate(row)[1] > t + days * HoursPerDay
    IN  SelectSeq(rows, Keep)

\* the rows with a close date on or before now + days
ClosingBy(rows, t, days) ==
    LET Keep(row) == /\ ExpectedCloseDate(row) # <<>>
                     /\ ExpectedCloseDate(row)[1] <= t + days * HoursPerDay
    IN  SelectSeq(rows, Keep)

generateForecasting(rows, t) ==
    [next_30_days |-> Sum(Weighted(ClosingBy(rows, t, 30))),
     next_60_days |-> Sum(Weighted(ClosingBy(rows, t, 60))),
     next_90_days |-> Sum(Weighted(ClosingBy(rows, t, 90))),
     confidence |-> ForecastConfidence]

\* mutant: the rate is the share of lost deals
ConversionRateOfLost(closedData) ==
    LET Lost(row) == row.stage = "closed-lost"
        totalClosed == Len(closedData)
    IN  IF totalClosed > 0
        THEN Ratio(Len(SelectSeq(closedData, Lost)), totalClosed) ELSE Zero

\* totalClosed > 0 ? totalWon / totalClosed : 0
ConversionRate(closedData) ==
    LET Won(row) == row.stage = "closed-won"
        totalClosed == Len(closedData)
    IN  IF totalClosed > 0
        THEN Ratio(Len(SelectSeq(closedData, Won)), totalClosed) ELSE Zero

\* the PipelineAnalytics object built from the two fetched sets
Analytics(stageData, closedData, t) ==
    LET totalIntents == Len(stageData)
        totalPipelineValue == Sum(Values(stageData))
    IN  [total_intents |-> totalIntents,
         total_pipeline_value |-> totalPipelineValue,
         weighted_pipeline_value |-> Sum(Weighted(stageData)),
         avg_deal_size |-> IF totalIntents > 0
                           THEN Ratio(totalPipelineValue, totalIntents) ELSE Zero,
         overall_conversion_rate |-> ConversionRate(closedData),
         stage_metrics |-> calculateStageMetrics(stageData, t),
         velocity_metrics |-> calculateVelocityMetrics,
         forecasting |-> generateForecasting(stageData, t)]

\* whether PipelineAnalyticsSchema.parse accepts the object: every metric is a
\* number, which a quotient by zero (NaN) is not
IsNumber(q) == q.den # 0
PipelineAnalyticsSchemaOk(a) ==
    /\ IsNumber(a.avg_deal_size)
    /\ IsNumber(a.overall_conversion_rate)
    /\ \A k \in 1..Len(a.stage_metrics) :
           /\ IsNumber(a.stage_metrics[k].avg_value)
           /\ IsNumber(a.stage_metrics[k].avg_probability)
           /\ IsNumber(a.stage_metrics[k].avg_days_in_stage)

-----------------------------------------------------------------------------
(* Telemetry: PerformanceMonitor *)

MaxMeasurements == 1000

\* mutant: the buffer keeps its first 1000 samples
recordKeepOldest(buffer, sample) ==
    LET pushed == Append(buffer, sample)
    IN  IF Len(pushed) > MaxMeasurements
        THEN SubSeq(pushed, 1, MaxMeasurements)
        ELSE pushed

\* PerformanceMonitor.record: push, then keep only the last 1000
record(buffer, sample) ==
    LET pushed == Append(buffer, sample)
    IN  IF Len(pushed) > MaxMeasurements
        THEN SubSeq(pushed, Len(pushed) - MaxMeasurements + 1, Len(pushed))
        ELSE pushed

RECURSIVE recordAll(_, _)
recordAll(buffer, samples) ==
    IF samples = <<>> THEN buffer
    ELSE recordAll(record(buffer, Head(samples)), Tail(samples))

\* .sort((a, b) => a - b): position k holds the element with fewer than k
\* smaller elements and at least k elements not greater
SortAscending(s) ==
    [k \in 1..Len(s) |->
        CHOOSE v \in {s[i] : i \in 1..Len(s)} :
            /\ Cardinality({i \in 1..Len(s) : s[i] < v}) < k
            /\ Cardinality({i \in 1..Len(s) : s[i] <= v}) >= k]

\* Math.ceil(n * 0.95): for every n up to the buffer's capacity the double
\* product rounds up to the same integer as the exact 95 n / 100
P95Rank(n) == CeilDiv(95 * n, 100)

\* .filter(m => m.operation === operation && m.timestamp > cutoff).map(m => m.duration)
Durations(buffer, operation, cutoff) ==
    LET Keep(m) == m.operation = operation /\ m.timestamp > cutoff
        kept == SelectSeq(buffer, Keep)
    IN  [i \in 1..Len(kept) |-> kept[i].duration]

\* mutant: the largest matching duration is returned
getP95Max(buffer, operation, timeWindow, t) ==
    LET filtered == SortAscending(Durations(buffer, operation, t - timeWindow))
    IN  IF filtered = <<>> THEN <<>> ELSE <<filtered[Len(filtered)]>>

\* PerformanceMonitor.getP95: null (<<>>) or the duration at the P95 rank
getP95(buffer, operation, timeWindow, t) ==
    LET filtered == SortAscending(Durations(buffer, operation, t - timeWindow))
    IN  IF filtered = <<>> THEN <<>> ELSE <<filtered[P95Rank(Len(filtered))]>>

-----------------------------------------------------------------------------
(* Service layer: one invocation of an entity operation *)

Kinds == {"intent.get", "intent.list", "intent.pipeline_analytics",
          "relationship.get", "relationship.list"}
GetKinds == {"intent.get", "relationship.get"}
ListKinds == {"intent.list", "relationship.list"}

Requests == {"r1", "r2"}

Err(name, message) == [name |-> name, message |-> message]
ZodError == Err("ZodError", <<"invalid parameters">>)
TypeError == Err("TypeError", <<"Cannot read properties of undefined (reading 'id')">>)
ShapeError == Err("ZodError", <<"invalid response">>)

Pending == [status |-> "pending", error |-> <<>>, payload |-> <<>>]

\* setError / clearError: what the two set_config calls of the invocation reported
Idle ==
    [pc |-> "idle", kind |-> "intent.get", orgId |-> "orgA", requestId |-> "",
     params |-> [isObject |-> TRUE, id |-> 0, limit |-> <<>>, cursor |-> <<>>],
     setCalls |-> 0, fetchCalls |-> 0, clearCalls |-> 0,
     setError |-> <<>>, clearError |-> <<>>,
     samples |-> <<>>, fetched |-> <<>>, outcome |-> Pending]

\* IntentGetParamsSchema / IntentListParamsSchema / RelationshipGetParamsSchema /
\* RelationshipListParamsSchema .parse (getPipelineAnalytics takes no parameters)
ParamsValid(kind, params) ==
    CASE kind \in GetKinds -> params.isObject /\ IsUUID(params.id)
      [] kind \in ListKinds ->
           /\ params.isObject
           /\ (params.limit = <<>> \/
                  (params.limit[1] >= MinLimit /\ params.limit[1] <= MaxLimit))
           /\ (params.cursor = <<>> \/ IsUUID(params.cursor[1]))
      [] OTHER -> TRUE

\* what the catch block throws: the error it caught, unless building its log
\* entry fails first (getIntent and getRelationship read params.id there)
Rethrown(o, e) ==
    IF o.kind \in GetKinds /\ ~o.params.isObject THEN TypeError ELSE e

\* mutant: the error path records no sample
ThrowUnrecorded(o, e) ==
    [o EXCEPT !.outcome = [status |-> "error", error |-> <<Rethrown(o, e)>>,
                             payload |-> <<>>],
              !.clearCalls = @ + 1,
              !.pc = "clear"]

\* mutant: the context is released on the success path only
ThrowNoFinally(o, e) ==
    [o EXCEPT !.outcome = [status |-> "error", error |-> <<Rethrown(o, e)>>,
                             payload |-> <<>>],
              !.samples = Append(@, o.kind \o ".error"),
              !.pc = "done"]

\* catch: record '<operation>.error', rethrow; finally: call clearOrgContext
Throw(o, e) ==
    [o EXCEPT !.outcome = [status |-> "error", error |-> <<Rethrown(o, e)>>,
                             payload |-> <<>>],
              !.samples = Append(@, o.kind \o ".error"),
              !.clearCalls = @ + 1,
              !.pc = "clear"]

\* the envelope of a payload: data, and meta with the request id and tenant of
\* the RequestContext (the timestamp is not held), plus the pagination of a list
Envelope(o, payload) ==
    [data |-> payload.data,
     meta |-> IF "pagination" \in DOMAIN payload
              THEN [request_id |-> o.requestId, org_id |-> o.orgId,
                    pagination |-> payload.pagination]
              ELSE [request_id |-> o.requestId, org_id |-> o.orgId]]

\* mutant: the metadata names no request and no tenant
ReturnAnonymous(o, payload) ==
    [o EXCEPT !.outcome = [status |-> "ok", error |-> <<>>,
                             payload |-> <<Envelope([o EXCEPT !.requestId = "",
                                                              !.orgId = ""], payload)>>],
              !.samples = Append(@, o.kind),
              !.clearCalls = @ + 1,
              !.pc = "clear"]

\* record '<operation>', return the envelope; finally: call clearOrgContext
Return(o, payload) ==
    [o EXCEPT !.outcome = [status |-> "ok", error |-> <<>>,
                             payload |-> <<Envelope(o, payload)>>],
              !.samples = Append(@, o.kind),
              !.clearCalls = @ + 1,
              !.pc = "clear"]

\* the synchronous start of an operation, up to its first await
Begin(kind, orgId, requestId, params) ==
    LET o == [Idle EXCEPT !.kind = kind, !.orgId = orgId, !.requestId = requestId,
                          !.params = params]
    IN  IF ~ParamsValid(kind, params) THEN Throw(o, ZodError)
        ELSE [o EXCEPT !.setCalls = @ + 1, !.pc = "set"]

\* mutant: a failed set-context call is issued again
AfterSetRetrying(o, rpcError) ==
    IF rpcError # <<>>
    THEN [o EXCEPT !.setCalls = @ + 1, !.pc = "set"]
    ELSE [o EXCEPT !.fetchCalls = @ + 1, !.pc = "fetch"]

\* mutant: the rpc error is only logged, as clearOrgContext does
AfterSetIgnoringError(o, rpcError) ==
    [o EXCEPT !.fetchCalls = @ + 1, !.pc = "fetch"]

\* setOrgContext resolved: throw on an rpc error, otherwise issue the fetch
AfterSet(o, rpcError) ==
    IF rpcError # <<>>
    THEN Throw(o, Err("Error", <<"Failed to set org context: ", rpcError[1]>>))
    ELSE [o EXCEPT !.fetchCalls = @ + 1, !.pc = "fetch"]

\* IntentResponseSchema.parse of one row with its generated insights and actions
IntentItem(row, t) ==
    [id |-> row.id, org_id |-> row.org_id, stage |-> row.stage,
     value |-> row.value, probability |-> row.probability,
     expected_close_date |-> ExpectedCloseDate(row),
     ai_insights |-> generateAIInsights(row, t),
     next_best_actions |-> generateNextBestActions(row, t),
     days_in_stage |-> calculateDaysInStage(row.updated_at, row.stage, t)]

\* RelationshipResponseSchema.parse of one row
RelationshipItem(row) == [id |-> row.id, org_id |-> row.org_id]

\* whether the response schema accepts the row (a NULL metadata / tags does not)
ShapeOk(kind, row) ==
    IF kind \in {"relationship.get", "relationship.list"}
    THEN row.tags # "null" ELSE row.metadata # "null"

Item(kind, row, t) ==
    IF kind \in {"relationship.get", "relationship.list"}
    THEN RelationshipItem(row) ELSE IntentItem(row, t)

NotFoundMessage(kind) ==
    IF kind = "relationship.get" THEN "Relationship not found"
    ELSE "Intent not found"

\* mutant: the missing row is tested before the reported error
AfterGetRowFirst(o, res, t) ==
    IF res.data = <<>> THEN Throw(o, Err("Error", <<NotFoundMessage(o.kind)>>))
    ELSE IF res.error # <<>>
    THEN Throw(o, Err("Error", <<"Database query failed: ", res.error[1]>>))
    ELSE IF ~ShapeOk(o.kind, res.data[1]) THEN Throw(o, ShapeError)
    ELSE Return(o, [data |-> Item(o.kind, res.data[1], t)])

\* getIntent / getRelationship after the fetch resolved
AfterGet(o, res, t) ==
    IF res.error # <<>>
    THEN Throw(o, Err("Error", <<"Database query failed: ", res.error[1]>>))
    ELSE IF res.data = <<>>
    THEN Throw(o, Err("Error", <<NotFoundMessage(o.kind)>>))
    ELSE IF ~ShapeOk(o.kind, res.data[1]) THEN Throw(o, ShapeError)
    ELSE Return(o, [data |-> Item(o.kind, res.data[1], t)])

\* mutant: the extra row fetched to detect more results is returned too
PageUnsliced(kind, data, count, limit, t) ==
    LET hasMore == Len(data) > limit
        nextCursor == IF hasMore THEN <<data[Len(data)].id>> ELSE <<>>
    IN  [data |-> [i \in 1..Len(data) |-> Item(kind, data[i], t)],
         pagination |->
             [cursor |-> nextCursor, has_more |-> hasMore, limit |-> limit,
              total_count |-> IF count # <<>> /\ count[1] # 0 THEN count ELSE <<>>]]

\* hasMore / slice / nextCursor and the pagination envelope
Page(kind, data, count, limit, t) ==
    LET hasMore == Len(data) > limit
        items == SubSeq(data, 1, Min(Len(data), limit))
        nextCursor == IF hasMore /\ items # <<>>
                      THEN <<items[Len(items)].id>> ELSE <<>>
    IN  [data |-> [i \in 1..Len(items) |-> Item(kind, items[i], t)],
         pagination |->
             [cursor |-> nextCursor, has_more |-> hasMore, limit |-> limit,
              total_count |-> IF count # <<>> /\ count[1] # 0 THEN count ELSE <<>>]]

\* listIntents / listRelationships after the fetch resolved
AfterList(o, res, t) ==
    IF res.error # <<>>
    THEN Throw(o, Err("Error", <<"Database query failed: ", res.error[1]>>))
    ELSE LET shown == SubSeq(res.data, 1, Min(Len(res.data), Limit(o.params)))
         IN  IF \E i \in 1..Len(shown) : ~ShapeOk(o.kind, shown[i])
             THEN Throw(o, ShapeError)
             ELSE Return(o, Page(o.kind, res.data, res.count, Limit(o.params), t))

\* getPipelineAnalytics after the stage fetch resolved: issue the closed fetch
AfterStageData(o, res) ==
    IF res.error # <<>>
    THEN Throw(o, Err("Error", <<"Failed to get stage data: ", res.error[1]>>))
    ELSE [o EXCEPT !.fetchCalls = @ + 1, !.pc = "fetch2"]

\* getPipelineAnalytics after the closed fetch resolved
AfterClosedData(o, res, t) ==
    IF res.error # <<>>
    THEN Throw(o, Err("Error", <<"Failed to get closed deals: ", res.error[1]>>))
    ELSE LET analytics == Analytics(o.fetched[1].data, res.data, t)
         IN  IF ~PipelineAnalyticsSchemaOk(analytics) THEN Throw(o, ShapeError)
             ELSE Return(o, [data |-> analytics])

\* the results the storage can give the fetch that o awaits, under context ctx
FetchResults(o, ctx) ==
    CASE o.kind \in GetKinds -> SingleResults(TableOf(o.kind), o.params.id, ctx)
      [] o.kind \in ListKinds -> ListResults(TableOf(o.kind), o.params, ctx)
      [] o.pc = "fetch" -> StageDataResults(TableOf(o.kind), ctx)
      [] OTHER -> ClosedDataResults(TableOf(o.kind), ctx)

\* the continuation of o once its fetch resolved with res under context ctx
AfterFetch(o, res, ctx, t) ==
    LET seen == [o EXCEPT !.fetched =
                     Append(@, [ctx |-> ctx, data |-> res.data, error |-> res.error,
                                count |-> res.count])]
    IN  CASE o.kind \in GetKinds -> AfterGet(seen, res, t)
          [] o.kind \in ListKinds -> AfterList(seen, res, t)
          [] o.pc = "fetch" -> AfterStageData(seen, res)
          [] OTHER -> AfterClosedData(seen, res, t)

\* the samples o2 recorded beyond those of o1, pushed to the buffer
Recorded(buffer, o1, o2) ==
    recordAll(buffer,
              [i \in 1..(Len(o2.samples) - Len(o1.samples)) |->
                  [operation |-> o2.samples[Len(o1.samples) + i],
                   orgId |-> o2.orgId]])

-----------------------------------------------------------------------------
(* Telemetry: Logger *)

\* an object is a function from its keys to their values: strings, or under the
\* key "user" a nested object
\* { ...a, ...b }
Spread(a, b) ==
    [k \in DOMAIN a \cup DOMAIN b |-> IF k \in DOMAIN b THEN b[k] ELSE a[k]]

piiFields == {"email", "phone", "ssn", "credit_card", "password"}
Masked == "***MASKED***"

\* the truthiness of a string value: every string but the empty one
Truthy(v) == v # ""

\* Logger.maskPII: a shallow copy with the truthy top-level PII fields overwritten
maskPII(obj) ==
    [k \in DOMAIN obj |->
        IF k \in piiFields /\ Truthy(obj[k]) THEN Masked ELSE obj[k]]

\* JSON.stringify of an object: its "key":value members, a nested object
\* written out in the same way
Stringify(obj) ==
    {<<k, IF k = "user" THEN {<<j, obj[k][j]>> : j \in DOMAIN obj[k]} ELSE obj[k]>> :
        k \in DOMAIN obj}

\* Logger.log: the line written for a call at time t
LogLine(call, t) ==
    LET base == [k \in {"timestamp", "level", "message"} |->
                    CASE k = "timestamp" -> t
                      [] k = "level" -> call.level
                      [] OTHER -> call.message]
        logEntry == Spread(Spread(base, call.context), call.extra)
    IN  [level |-> call.level, text |-> Stringify(maskPII(logEntry))]

\* the Logger call slot while no call is under way
NoLogCall == [context |-> <<>>, level |-> "info", message |-> "", extra |-> <<>>]

\* no getP95 call made yet
NoP95 == [operation |-> "", timeWindow |-> 0, result |-> <<>>, called |-> FALSE]

\* the span slot while no span is under study
NoSpan ==
    [operation |-> "", startTime |-> 0, tags |-> <<>>, logs |-> <<>>,
     finished |-> FALSE, returned |-> <<>>]

\* a caller that follows no cursor
NoWalk == [rows |-> <<>>, complete |-> FALSE]

\* the telemetry variables of a specification that does not exercise them
TelIdle ==
    /\ recordCalls = <<>> /\ logCall = NoLogCall /\ emitted = <<>>
    /\ p95 = NoP95 /\ span = NoSpan

-----------------------------------------------------------------------------
(* Service specification: two requests run concurrently over one session *)

IdSet == {0, 1, 3, 4, 9}
LimitSet == {<<>>, <<0>>, <<1>>, <<2>>, <<101>>}
CursorSet == {<<>>, <<1>>}

\* a call made without a parameter object (null)
NullParams == [isObject |-> FALSE, id |-> 0, limit |-> <<>>, cursor |-> <<>>]

ParamSets(kind) ==
    CASE kind \in GetKinds ->
           [isObject : {TRUE}, id : IdSet, limit : {<<>>}, cursor : {<<>>}]
           \cup {NullParams}
      [] kind \in ListKinds ->
           [isObject : {TRUE}, id : {0}, limit : LimitSet, cursor : CursorSet]
           \cup {NullParams}
      [] OTHER -> [isObject : {TRUE}, id : {0}, limit : {<<>>}, cursor : {<<>>}]

Init ==
    /\ intentData = NoIntent
    /\ now = Now
    /\ actions = <<>>
    /\ insights = <<>>
    /\ rulePc = "off"
    /\ currentOrgId = ""
    /\ measurements = <<>>
    /\ ops = [r \in Requests |-> Idle]
    /\ intents = SvcIntents
    /\ event_log = <<>>
    /\ updates = <<>>
    /\ TelIdle
    /\ pages = NoWalk

\* a caller invokes an operation of a service constructed for orgId
Call(r) ==
    /\ ops[r].pc = "idle"
    /\ \E kind \in Kinds, orgId \in Orgs :
         \E params \in ParamSets(kind) :
           LET o == Begin(kind, orgId, r, params)
           IN  /\ ops' = [ops EXCEPT ![r] = o]
               /\ measurements' = Recorded(measurements, ops[r], o)
    /\ UNCHANGED <<currentOrgId, ruleVars, dbVars, telVars, clientVars>>

\* the database runs r's set_config(orgId) rpc and r resumes
DbSet(r) ==
    /\ ops[r].pc = "set"
    /\ \E rpcError \in {<<>>, <<"rpc failed">>} :
         LET o == AfterSet([ops[r] EXCEPT !.setError = rpcError], rpcError)
         IN  /\ currentOrgId' = IF rpcError = <<>> THEN ops[r].orgId ELSE currentOrgId
             /\ ops' = [ops EXCEPT ![r] = o]
             /\ measurements' = Recorded(measurements, ops[r], o)
    /\ UNCHANGED <<ruleVars, dbVars, telVars, clientVars>>

\* the database runs r's query under the session variable and r resumes
DbFetch(r) ==
    /\ ops[r].pc \in {"fetch", "fetch2"}
    /\ \E res \in FetchResults(ops[r], currentOrgId) :
         LET o == AfterFetch(ops[r], res, currentOrgId, now)
         IN  /\ ops' = [ops EXCEPT ![r] = o]
             /\ measurements' = Recorded(measurements, ops[r], o)
    /\ UNCHANGED <<currentOrgId, ruleVars, dbVars, telVars, clientVars>>

\* the database runs r's set_config('') rpc and r returns to its caller
DbClear(r) ==
    /\ ops[r].pc = "clear"
    /\ \E rpcError \in {<<>>, <<"rpc failed">>} :
         /\ currentOrgId' = IF rpcError = <<>> THEN "" ELSE currentOrgId
         /\ ops' = [ops EXCEPT ![r].pc = "done", ![r].clearError = rpcError]
    /\ UNCHANGED <<measurements, ruleVars, dbVars, telVars, clientVars>>

Next ==
    \E r \in Requests : Call(r) \/ DbSet(r) \/ DbFetch(r) \/ DbClear(r)

Spec == Init /\ [][Next]_vars

-----------------------------------------------------------------------------
(* Properties of the service specification *)

Began(r) == ops[r].pc # "idle"
Returned(r) == ops[r].pc = "done"
Failed(r) == ops[r].outcome.status = "error"
Succeeded(r) == ops[r].outcome.status = "ok"
ErrorOf(r) == ops[r].outcome.error[1]
PayloadOf(r) == ops[r].outcome.payload[1]

\* C1: when operations constructed for different tenants run concurrently,
\* every fetch of an operation of tenant A runs while the session variable
\* equals A, and so returns no row of another tenant.
C1_FetchUnderOwnTenant ==
    \A r, q \in Requests :
        (Began(r) /\ Began(q) /\ ops[r].orgId # ops[q].orgId) =>
            \A i \in 1..Len(ops[r].fetched) :
                /\ ops[r].fetched[i].ctx = ops[r].orgId
                /\ \A k \in 1..Len(ops[r].fetched[i].data) :
                       "org_id" \in DOMAIN ops[r].fetched[i].data[k] =>
                           ops[r].fetched[i].data[k].org_id = ops[r].orgId

\* C2: clearOrgContext is called exactly once per invocation, and before the
\* invocation returns, whichever way it ends.
C2_ClearExactlyOnce ==
    \A r \in Requests :
        /\ ops[r].clearCalls = IF ops[r].pc \in {"clear", "done"} THEN 1 ELSE 0
        /\ Returned(r) => ops[r].clearCalls = 1

\* a request returned after a response-shape failure while the other returned a payload
C2_Witness ==
    \E r, q \in Requests :
        /\ Returned(r) /\ Failed(r) /\ ErrorOf(r) = ShapeError
        /\ ops[r].clearCalls = 1
        /\ Returned(q) /\ Succeeded(q) /\ ops[q].clearCalls = 1

\* C4: a list response over M matching rows and limit N has the first N fetched
\* rows, has_more and the Nth id as cursor when M > N; all M rows, no more and
\* no cursor when M <= N.
C4_Pagination ==
    \A r \in Requests :
        (ops[r].kind \in ListKinds /\ Succeeded(r)) =>
            LET f == ops[r].fetched[1]
                N == Limit(ops[r].params)
                M == f.count[1]
                page == PayloadOf(r)
                K == IF M > N THEN N ELSE M
            IN  /\ Len(page.data) = K
                /\ \A i \in 1..K : page.data[i].id = f.data[i].id
                /\ page.meta.pagination.has_more = (M > N)
                /\ page.meta.pagination.cursor =
                       IF M > N THEN <<page.data[N].id>> ELSE <<>>

\* a two-item page cut out of three matching rows
C4_Witness ==
    \E r \in Requests :
        /\ ops[r].kind \in ListKinds /\ Succeeded(r) /\ Returned(r)
        /\ ops[r].params.limit = <<2>>
        /\ ops[r].fetched[1].count = <<3>>
        /\ PayloadOf(r).meta.pagination.has_more
        /\ Len(PayloadOf(r).data) = 2

\* C7: an invocation records exactly one sample before it returns, labelled
\* '<operation>' with a payload and '<operation>.error' with an error.
C7_OneSamplePerInvocation ==
    /\ \A r \in Requests :
        /\ ops[r].pc \in {"idle", "set", "fetch", "fetch2"} => ops[r].samples = <<>>
        /\ ops[r].pc \in {"clear", "done"} =>
               ops[r].samples =
                   <<IF Succeeded(r) THEN ops[r].kind ELSE ops[r].kind \o ".error">>
    /\ Len(measurements) =
           Cardinality({r \in Requests : ops[r].pc \in {"clear", "done"}})
    /\ \A r \in Requests : ops[r].pc \in {"clear", "done"} =>
           \E i \in 1..Len(measurements) :
               measurements[i] = [operation |-> ops[r].samples[1],
                                  orgId |-> ops[r].orgId]

\* a failed set-context call left one '.error' sample, a success one plain sample
C7_Witness ==
    \E r, q \in Requests :
        /\ Returned(r) /\ Failed(r)
        /\ ErrorOf(r).message[1] = "Failed to set org context: "
        /\ ops[r].samples = <<ops[r].kind \o ".error">>
        /\ Returned(q) /\ Succeeded(q) /\ ops[q].samples = <<ops[q].kind>>
        /\ Len(measurements) = 2

\* the parameter objects the schemas reject
Malformed(kind, params) ==
    \/ kind \in GetKinds \cup ListKinds /\ ~params.isObject
    \/ kind \in GetKinds /\ params.id <= 0
    \/ kind \in ListKinds /\ params.limit # <<>>
           /\ (params.limit[1] < 1 \/ params.limit[1] > 100)

\* C8: an invocation with malformed parameters fails with the validation error
\* and issues neither a set-context call nor a fetch.
C8_ValidationFirst ==
    \A r \in Requests :
        (Began(r) /\ Malformed(ops[r].kind, ops[r].params)) =>
            /\ Failed(r) /\ ErrorOf(r) = ZodError
            /\ ops[r].setCalls = 0
            /\ ops[r].fetchCalls = 0
            /\ ops[r].fetched = <<>>

\* C9: in the get operations a reported fetch error always gives 'Database query
\* failed: <cause>', no error and no row gives the not-found error (a different
\* message), and a payload needs a row without error.
C9_GetErrors ==
    \A r \in Requests :
        (ops[r].kind \in GetKinds /\ ops[r].fetched # <<>>) =>
            LET f == ops[r].fetched[1]
            IN  /\ f.error # <<>> =>
                       /\ Failed(r)
                       /\ ErrorOf(r) =
                              Err("Error", <<"Database query failed: ", f.error[1]>>)
                /\ (f.error = <<>> /\ f.data = <<>>) =>
                       /\ Failed(r)
                       /\ ErrorOf(r).message \in {<<"Intent not found">>,
                                                  <<"Relationship not found">>}
                       /\ ErrorOf(r).message[1] # "Database query failed: "
                /\ Succeeded(r) => (f.data # <<>> /\ f.error = <<>>)

\* one get failed on a reported error without a row, the other on a missing row
C9_Witness ==
    \E r, q \in Requests :
        /\ ops[r].kind \in GetKinds /\ Returned(r) /\ ops[r].fetched # <<>>
        /\ ops[r].fetched[1].error = <<"no rows returned">>
        /\ ops[r].fetched[1].data = <<>>
        /\ Failed(r)
        /\ ErrorOf(r).message[1] = "Database query failed: "
        /\ ops[q].kind \in GetKinds /\ Returned(q) /\ ops[q].fetched # <<>>
        /\ ops[q].fetched[1].error = <<>>
        /\ Failed(q)
        /\ ErrorOf(q).message = <<"Intent not found">>

\* the most fetches an operation issues: two for the analytics, one otherwise
MaxFetches(kind) == IF kind = "intent.pipeline_analytics" THEN 2 ELSE 1

\* C22: nothing is retried: an invocation issues at most one set-context call
\* and at most one fetch (two for getPipelineAnalytics); after a failed
\* set-context call or fetch no further call is issued and that failure is the
\* error the caller gets.
C22_NoRetry ==
    \A r \in Requests :
        /\ ops[r].setCalls <= 1
        /\ ops[r].fetchCalls <= MaxFetches(ops[r].kind)
        /\ Len(ops[r].fetched) <= ops[r].fetchCalls
        /\ ops[r].setError # <<>> =>
               /\ ops[r].fetchCalls = 0
               /\ Failed(r)
               /\ ErrorOf(r) = Err("Error", <<"Failed to set org context: ",
                                              ops[r].setError[1]>>)
        /\ \A i \in 1..Len(ops[r].fetched) :
               ops[r].fetched[i].error # <<>> =>
                   /\ i = Len(ops[r].fetched)
                   /\ ops[r].fetchCalls = i
                   /\ Failed(r)
                   /\ ErrorOf(r).name = "Error"
                   /\ Len(ErrorOf(r).message) = 2
                   /\ ErrorOf(r).message[2] = ops[r].fetched[i].error[1]

\* an analytics call whose second fetch failed returned that failure, while a
\* list call whose only fetch failed returned its own
C22_Witness ==
    \E r, q \in Requests :
        /\ ops[r].kind = "intent.pipeline_analytics" /\ Returned(r) /\ Failed(r)
        /\ ops[r].fetchCalls = 2 /\ Len(ops[r].fetched) = 2
        /\ ops[r].fetched[1].error = <<>>
        /\ ops[r].fetched[2].error = <<"connection failed">>
        /\ ErrorOf(r).message = <<"Failed to get closed deals: ", "connection failed">>
        /\ ops[q].kind = "intent.list" /\ Returned(q) /\ Failed(q)
        /\ ops[q].fetchCalls = 1
        /\ ErrorOf(q).message = <<"Database query failed: ", "connection failed">>

\* C23: a successful call returns data and metadata with the request id and
\* tenant id of the context the service was constructed with; a list call also
\* returns the pagination: next cursor or null, has_more, and the validated
\* limit, 20 when the caller gave none.
C23_Envelope ==
    \A r \in Requests :
        Succeeded(r) =>
            LET e == PayloadOf(r)
            IN  /\ DOMAIN e = {"data", "meta"}
                /\ ops[r].requestId = r
                /\ e.meta.request_id = ops[r].requestId
                /\ e.meta.org_id = ops[r].orgId
                /\ "pagination" \in DOMAIN e.meta <=> ops[r].kind \in ListKinds
                /\ ops[r].kind \in ListKinds =>
                       LET pg == e.meta.pagination
                       IN  /\ pg.has_more \in BOOLEAN
                           /\ Len(pg.cursor) \in {0, 1}
                           /\ pg.cursor # <<>> => pg.has_more
                           /\ pg.limit >= 1 /\ pg.limit <= 100
                           /\ ops[r].params.limit # <<>> =>
                                  pg.limit = ops[r].params.limit[1]
                           /\ ops[r].params.limit = <<>> => pg.limit = 20

\* a list call without limit for one tenant and a get call for the other both
\* returned, each with its own request id and tenant
C23_Witness ==
    \E r, q \in Requests :
        /\ r # q /\ ops[r].orgId # ops[q].orgId
        /\ Returned(r) /\ Succeeded(r) /\ ops[r].kind \in ListKinds
        /\ ops[r].params.limit = <<>>
        /\ PayloadOf(r).meta.pagination.limit = 20
        /\ PayloadOf(r).meta.pagination.cursor = <<>>
        /\ PayloadOf(r).meta.request_id = r
        /\ Returned(q) /\ Succeeded(q) /\ ops[q].kind \in GetKinds
        /\ PayloadOf(q).meta.request_id = q
        /\ PayloadOf(q).meta.org_id = ops[q].orgId

\* C26: a fetch is issued only after the invocation's own set-context call
\* succeeded; after a failed one the invocation issues no fetch, records one
\* '<operation>.error' sample, calls clearOrgContext and fails with 'Failed to
\* set org context'; a failed clearOrgContext leaves the result or error as it was.
C26_SetContextFirst ==
    \A r \in Requests :
        /\ ops[r].fetchCalls > 0 =>
               /\ ops[r].setCalls = 1
               /\ ops[r].pc # "set"
               /\ ops[r].setError = <<>>
        /\ ops[r].setError # <<>> =>
               /\ ops[r].fetchCalls = 0 /\ ops[r].fetched = <<>>
               /\ ops[r].samples = <<ops[r].kind \o ".error">>
               /\ ops[r].clearCalls = 1
               /\ Failed(r)
               /\ ErrorOf(r).message[1] = "Failed to set org context: "
        /\ ops[r].clearError # <<>> =>
               /\ Returned(r)
               /\ \/ /\ Succeeded(r)
                     /\ ops[r].samples = <<ops[r].kind>>
                     /\ ops[r].outcome.payload # <<>>
                  \/ /\ Failed(r)
                     /\ ops[r].samples = <<ops[r].kind \o ".error">>
                     /\ ErrorOf(r).message[1] \in
                            {"invalid parameters", "invalid response",
                             "Cannot read properties of undefined (reading 'id')",
                             "Failed to set org context: ", "Database query failed: ",
                             "Intent not found", "Relationship not found",
                             "Failed to get stage data: ",
                             "Failed to get closed deals: "}

\* one invocation failed to set its context and then to clear it; another
\* succeeded and then failed to clear
C26_Witness ==
    \E r, q \in Requests :
        /\ Returned(r) /\ ops[r].setError # <<>> /\ ops[r].clearError # <<>>
        /\ ops[r].fetchCalls = 0 /\ ops[r].clearCalls = 1
        /\ Returned(q) /\ Succeeded(q) /\ ops[q].clearError # <<>>

-----------------------------------------------------------------------------
(* Analytics specification: one request at a time over a range of tables *)

\* rows the analytics tables are made of
AnalyticsRows ==
    <<[id |-> 1, org_id |-> "orgA", stage |-> "proposal", probability |-> 50,
       value |-> 100000, updated_at |-> Now - 100, metadata |-> "{}",
       expected_close_date |-> <<Now + 10 * HoursPerDay>>],
      [id |-> 2, org_id |-> "orgA", stage |-> "negotiation", probability |-> 80,
       value |-> 20000, updated_at |-> Now - 50, metadata |-> "{}",
       expected_close_date |-> <<Now + 45 * HoursPerDay>>],
      [id |-> 3, org_id |-> "orgA", stage |-> "closed-won", probability |-> 100,
       value |-> 50000, updated_at |-> Now - 200, metadata |-> "{}",
       expected_close_date |-> <<>>],
      [id |-> 4, org_id |-> "orgA", stage |-> "closed-lost", probability |-> 0,
       value |-> 70000, updated_at |-> Now - 300, metadata |-> "{}",
       expected_close_date |-> <<>>],
      [id |-> 5, org_id |-> "orgB", stage |-> "discovery", probability |-> 20,
       value |-> 10, updated_at |-> Now - 10, metadata |-> "{}",
       expected_close_date |-> <<Now + 100 * HoursPerDay>>]>>

\* every table holding some of the rows, in id order
RECURSIVE SubTables(_)
SubTables(rows) ==
    IF rows = <<>> THEN {<<>>}
    ELSE LET rest == SubTables(Tail(rows))
         IN  rest \cup {<<Head(rows)>> \o t : t \in rest}

AnalyticsInit ==
    /\ intentData = NoIntent
    /\ now = Now
    /\ actions = <<>>
    /\ insights = <<>>
    /\ rulePc = "off"
    /\ currentOrgId = ""
    /\ measurements = <<>>
    /\ ops = [r \in Requests |-> Idle]
    /\ intents \in SubTables(AnalyticsRows)
    /\ event_log = <<>>
    /\ updates = <<>>
    /\ TelIdle
    /\ pages = NoWalk

AnalyticsNext == Call("r1") \/ DbSet("r1") \/ DbFetch("r1") \/ DbClear("r1")

SpecAnalytics == AnalyticsInit /\ [][AnalyticsNext]_vars

-----------------------------------------------------------------------------
(* Properties of the analytics specification *)

\* request r ran both analytics fetches without a reported error
AnalyticsFetched(r) ==
    /\ ops[r].kind = "intent.pipeline_analytics"
    /\ Len(ops[r].fetched) = 2
    /\ ops[r].fetched[1].error = <<>>
    /\ ops[r].fetched[2].error = <<>>

\* the intents of the table that the stage fetch of r matched
PipelineIntents(r) == NotClosedLost(Visible(intents, ops[r].fetched[1].ctx))

\* the intents whose close date falls within the next days days
ClosingWithinNext(rows, days) ==
    LET Keep(row) == /\ row.expected_close_date # <<>>
                     /\ row.expected_close_date[1] >= now
                     /\ row.expected_close_date[1] <= now + days * HoursPerDay
    IN  SelectSeq(rows, Keep)

\* C11: forecasting.next_H_days is the sum of value x probability over the
\* fetched non-closed-lost intents whose close date falls within the next H
\* days, for H = 30, 60, 90, and the forecast confidence is 0.82.
C11_Forecasting ==
    \A r \in Requests :
        (AnalyticsFetched(r) /\ Succeeded(r)) =>
            LET f == PayloadOf(r).data.forecasting
                Expected(days) ==
                    Sum(Weighted(ClosingWithinNext(PipelineIntents(r), days)))
            IN  /\ f.next_30_days = Expected(30)
                /\ f.next_60_days = Expected(60)
                /\ f.next_90_days = Expected(90)
                /\ f.confidence = 82

IsZero(q) == q.num = 0 /\ q.den # 0

\* C12: when both fetches return empty sets the operation returns a payload
\* with total_intents, both pipeline values, avg_deal_size and
\* overall_conversion_rate equal to 0, and every stage entry has count 0 and
\* averages 0.
C12_EmptyDegradesToZero ==
    \A r \in Requests :
        (AnalyticsFetched(r) /\ ops[r].fetched[1].data = <<>>
                             /\ ops[r].fetched[2].data = <<>>) =>
            /\ Succeeded(r)
            /\ LET a == PayloadOf(r).data
               IN  /\ a.total_intents = 0
                   /\ a.total_pipeline_value = 0
                   /\ a.weighted_pipeline_value = 0
                   /\ IsZero(a.avg_deal_size)
                   /\ IsZero(a.overall_conversion_rate)
                   /\ Len(a.stage_metrics) = 5
                   /\ \A k \in 1..Len(a.stage_metrics) :
                          /\ a.stage_metrics[k].count = 0
                          /\ IsZero(a.stage_metrics[k].avg_value)
                          /\ IsZero(a.stage_metrics[k].avg_probability)
                          /\ IsZero(a.stage_metrics[k].avg_days_in_stage)

\* analytics returned for a tenant without any intent in a table that has rows
C12_Witness ==
    \E r \in Requests :
        /\ AnalyticsFetched(r) /\ Returned(r) /\ Succeeded(r)
        /\ ops[r].orgId = "orgB"
        /\ Len(intents) = 4
        /\ ops[r].fetched[1].data = <<>> /\ ops[r].fetched[2].data = <<>>
        /\ PayloadOf(r).data.total_intents = 0

\* C20: total_intents is the number of fetched non-closed-lost intents,
\* total_pipeline_value the sum of their values, weighted_pipeline_value the sum
\* of value x probability, avg_deal_size their quotient, and
\* overall_conversion_rate = won / (won + lost) over the closed-only fetch, a
\* value within [0,1].
C20_PipelineTotals ==
    \A r \in Requests :
        (AnalyticsFetched(r) /\ Succeeded(r)) =>
            LET a == PayloadOf(r).data
                pipeline == PipelineIntents(r)
                closed == ops[r].fetched[2].data
                won == Cardinality({k \in 1..Len(closed) : closed[k].stage = "closed-won"})
                lost == Cardinality({k \in 1..Len(closed) : closed[k].stage = "closed-lost"})
            IN  /\ \A k \in 1..Len(pipeline) : pipeline[k].stage # "closed-lost"
                /\ a.total_intents = Len(pipeline)
                /\ a.total_pipeline_value = Sum(Values(pipeline))
                /\ a.weighted_pipeline_value = Sum(Weighted(pipeline))
                /\ a.total_intents > 0 =>
                       /\ a.avg_deal_size.den > 0
                       /\ a.avg_deal_size.num * a.total_intents =
                              a.total_pipeline_value * a.avg_deal_size.den
                /\ won + lost = Len(closed)
                /\ won + lost > 0 =>
                       /\ a.overall_conversion_rate.den > 0
                       /\ a.overall_conversion_rate.num * (won + lost) =
                              won * a.overall_conversion_rate.den
                /\ a.overall_conversion_rate.den > 0
                /\ a.overall_conversion_rate.num >= 0
                /\ a.overall_conversion_rate.num <= a.overall_conversion_rate.den

\* three pipeline intents worth 170000, one deal won and one lost: rate 1/2
C20_Witness ==
    \E r \in Requests :
        /\ AnalyticsFetched(r) /\ Returned(r) /\ Succeeded(r)
        /\ PayloadOf(r).data.total_intents = 3
        /\ PayloadOf(r).data.total_pipeline_value = 170000
        /\ PayloadOf(r).data.weighted_pipeline_value = 11600000
        /\ PayloadOf(r).data.avg_deal_size = Ratio(170000, 3)
        /\ PayloadOf(r).data.overall_conversion_rate = Ratio(1, 2)

\* the positions of rows holding an intent of the stage
InStage(rows, stage) == {i \in 1..Len(rows) : rows[i].stage = stage}

\* the sum of f over the finite index set I
RECURSIVE SumOver(_, _)
SumOver(f, I) ==
    IF I = {} THEN 0
    ELSE LET i == CHOOSE j \in I : TRUE IN f[i] + SumOver(f, I \ {i})

\* C24: stage_metrics has exactly five entries, for discovery, qualification,
\* proposal, negotiation and closed-won in that order; the count and total_value
\* of an entry cover exactly the fetched intents of its stage, avg_value is
\* total_value / count, and the three averages are 0 when count is 0.
C24_StageMetrics ==
    \A r \in Requests :
        (AnalyticsFetched(r) /\ Succeeded(r)) =>
            LET sm == PayloadOf(r).data.stage_metrics
                rows == PipelineIntents(r)
            IN  /\ Len(sm) = 5
                /\ [k \in 1..Len(sm) |-> sm[k].stage] =
                       <<"discovery", "qualification", "proposal", "negotiation",
                         "closed-won">>
                /\ \A k \in 1..Len(sm) :
                       LET I == InStage(rows, sm[k].stage)
                       IN  /\ sm[k].count = Cardinality(I)
                           /\ sm[k].total_value = SumOver(Values(rows), I)
                           /\ sm[k].count > 0 =>
                                  /\ sm[k].avg_value.den > 0
                                  /\ sm[k].avg_value.num * sm[k].count =
                                         sm[k].total_value * sm[k].avg_value.den
                           /\ sm[k].count = 0 =>
                                  /\ IsZero(sm[k].avg_value)
                                  /\ IsZero(sm[k].avg_probability)
                                  /\ IsZero(sm[k].avg_days_in_stage)

\* one intent each in proposal, negotiation and closed-won, none in the two
\* other stages, and a lost deal in the table
C24_Witness ==
    \E r \in Requests :
        /\ AnalyticsFetched(r) /\ Returned(r) /\ Succeeded(r)
        /\ \E i \in 1..Len(intents) :
               intents[i].stage = "closed-lost" /\ intents[i].org_id = ops[r].orgId
        /\ LET sm == PayloadOf(r).data.stage_metrics
           IN  /\ sm[1].count = 0 /\ IsZero(sm[1].avg_value)
               /\ sm[3].count = 1 /\ sm[3].total_value = 100000
               /\ sm[3].avg_value = Ratio(100000, 1)
               /\ sm[4].count = 1 /\ sm[4].total_value = 20000
               /\ sm[5].count = 1 /\ sm[5].total_value = 50000

\* C27: the stage breakdown adds up to the totals: the counts of stage_metrics
\* sum to total_intents and their total_value to total_pipeline_value.
C27_BreakdownAddsUp ==
    \A r \in Requests :
        (AnalyticsFetched(r) /\ Succeeded(r)) =>
            LET a == PayloadOf(r).data
                sm == a.stage_metrics
            IN  /\ SumOver([k \in 1..Len(sm) |-> sm[k].count], 1..Len(sm)) =
                       a.total_intents
                /\ SumOver([k \in 1..Len(sm) |-> sm[k].total_value], 1..Len(sm)) =
                       a.total_pipeline_value

\* a tenant with three pipeline intents and one lost deal: the three stage
\* entries with an intent add up to 3 intents and 170000
C27_Witness ==
    \E r \in Requests :
        /\ AnalyticsFetched(r) /\ Returned(r) /\ Succeeded(r)
        /\ Len(Visible(intents, ops[r].orgId)) = 4
        /\ LET a == PayloadOf(r).data
           IN  /\ a.total_intents = 3
               /\ a.stage_metrics[3].count + a.stage_metrics[4].count
                      + a.stage_metrics[5].count = 3
               /\ a.stage_metrics[3].total_value + a.stage_metrics[4].total_value
                      + a.stage_metrics[5].total_value = a.total_pipeline_value

\* next_30_days <= next_60_days <= next_90_days of a forecast
Cumulative(f) ==
    /\ f.next_30_days >= 0
    /\ f.next_30_days <= f.next_60_days
    /\ f.next_60_days <= f.next_90_days

\* C28: with values >= 0 and probabilities within [0,1], next_30_days <=
\* next_60_days <= next_90_days <= weighted_pipeline_value <=
\* total_pipeline_value, in the analytics result and in the forecast of the
\* matched intents with their close dates (weighted amounts are in hundredths).
C28_ForecastOrdering ==
    \A r \in Requests :
        (AnalyticsFetched(r) /\ Succeeded(r)) =>
            LET a == PayloadOf(r).data
                dated == generateForecasting(PipelineIntents(r), now)
            IN  /\ Cumulative(a.forecasting)
                /\ a.forecasting.next_90_days <= a.weighted_pipeline_value
                /\ a.weighted_pipeline_value <= 100 * a.total_pipeline_value
                /\ Cumulative(dated)
                /\ dated.next_90_days <= a.weighted_pipeline_value

\* a pipeline weighted at 116000 of 170000, of which 50000 is due within 30
\* days and 66000 within 60
C28_Witness ==
    \E r \in Requests :
        /\ AnalyticsFetched(r) /\ Returned(r) /\ Succeeded(r)
        /\ PayloadOf(r).data.weighted_pipeline_value = 11600000
        /\ PayloadOf(r).data.total_pipeline_value = 170000
        /\ PayloadOf(r).data.forecasting.next_90_days <= 11600000
        /\ LET dated == generateForecasting(PipelineIntents(r), now)
           IN  /\ dated.next_30_days = 5000000
               /\ dated.next_60_days = 6600000
               /\ dated.next_90_days = 6600000

\* C29: in a list response pagination.total_count is the exact match count the
\* fetch reported, whenever it reported one, a count of 0 included.
C29_TotalCount ==
    \A r \in Requests :
        (/\ ops[r].kind \in ListKinds /\ Succeeded(r)
         /\ Len(ops[r].fetched) = 1 /\ ops[r].fetched[1].count # <<>>) =>
            PayloadOf(r).meta.pagination.total_count = ops[r].fetched[1].count

-----------------------------------------------------------------------------
(* Rule-engine specification: every bounded intent is evaluated once *)

ProbabilitySet == {0, 29, 30, 31, 70, 71, 80, 81, 100}
ValueSet == {0, 50000, 50001, 100000, 100001, 120000}
MaxAgeDays == 15
AgeSet == {0, 1, (MaxAgeDays - 1) * HoursPerDay, (MaxAgeDays - 1) * HoursPerDay + 1,
           MaxAgeDays * HoursPerDay,
           ExtendedStageDaysAbove * HoursPerDay,
           ExtendedStageDaysAbove * HoursPerDay + 1}

\* no close date, one in the past, and dates around the closing-soon horizon
CloseSet ==
    {<<>>, <<Now - 5 * HoursPerDay>>, <<Now + 20 * HoursPerDay>>,
     <<Now + (ClosingSoonDaysBelow - 1) * HoursPerDay>>,
     <<Now + (ClosingSoonDaysBelow - 1) * HoursPerDay + 1>>,
     <<Now + 3 * ClosingSoonDaysBelow * HoursPerDay>>}

IntentInputs ==
    [stage : Stages, probability : ProbabilitySet, value : ValueSet,
     updated_at : {Now - a : a \in AgeSet}, expected_close_date : CloseSet]

RulesInit ==
    /\ intentData \in IntentInputs
    /\ now = Now
    /\ actions = <<>>
    /\ insights = <<>>
    /\ rulePc = "input"
    /\ currentOrgId = ""
    /\ measurements = <<>>
    /\ ops = [r \in Requests |-> Idle]
    /\ intents = <<>>
    /\ event_log = <<>>
    /\ updates = <<>>
    /\ TelIdle
    /\ pages = NoWalk

\* the two rule evaluations of one read of an intent (getIntent, lines 89-90)
Generate ==
    /\ rulePc = "input"
    /\ IF InsightsThrow(intentData, now) \/ ActionsThrow(intentData, now)
       THEN /\ rulePc' = "threw"
            /\ UNCHANGED <<insights, actions>>
       ELSE /\ insights' = generateAIInsights(intentData, now)
            /\ actions' = generateNextBestActions(intentData, now)
            /\ rulePc' = "done"
    /\ UNCHANGED <<intentData, now, svcVars, dbVars, telVars, clientVars>>

RulesNext == Generate

SpecRules == RulesInit /\ [][RulesNext]_vars

-----------------------------------------------------------------------------
(* Properties of the rule-engine specification *)

Evaluated == rulePc = "done"

Titled(title) == {i \in 1..Len(actions) : actions[i].title = title}

\* C3: the returned list is ascending by priority and, within one priority,
\* descending by confidence.
C3_ActionsSorted ==
    Evaluated =>
        \A i, j \in 1..Len(actions) :
            i < j =>
                /\ actions[i].priority <= actions[j].priority
                /\ actions[i].priority = actions[j].priority =>
                       actions[i].confidence >= actions[j].confidence

\* the executive meeting, generated last, was moved ahead of the discovery call
C3_Witness ==
    /\ Evaluated
    /\ Len(actions) = 2
    /\ actions[1].title = "Executive Meeting" /\ actions[1].priority = 1
    /\ actions[2].title = "Discovery Call" /\ actions[2].priority = 2

\* C5: above 100000 the list has exactly one Executive Meeting (meeting,
\* priority 1, confidence 0.79, impact high, effort high) unless the stage rule
\* gave a meeting-type action, and then none; at or below 100000 it has none.
C5_ExecutiveMeeting ==
    Evaluated =>
        LET exec == Titled("Executive Meeting")
            stageMeeting ==
                \E i \in 1..Len(actions) :
                    actions[i].type = "meeting" /\ actions[i].title # "Executive Meeting"
        IN  /\ (intentData.value > 100000 /\ ~stageMeeting) => Cardinality(exec) = 1
            /\ (intentData.value > 100000 /\ stageMeeting) => exec = {}
            /\ intentData.value <= 100000 => exec = {}
            /\ stageMeeting <=> intentData.stage = "negotiation"
            /\ \A i \in exec :
                   /\ actions[i].type = "meeting"
                   /\ actions[i].priority = 1
                   /\ actions[i].confidence = 79
                   /\ actions[i].estimated_impact = "high"
                   /\ actions[i].estimated_effort = "high"

\* a qualification intent worth 100001 got its one executive meeting
C5_Witness ==
    /\ Evaluated
    /\ intentData.value = 100001
    /\ intentData.stage = "qualification"
    /\ Cardinality(Titled("Executive Meeting")) = 1

Scenario6 == Evaluated /\ intentData.stage = "negotiation" /\ intentData.value = 120000

\* C6 as stated: a negotiation intent worth 120000 gets both the Negotiation
\* Meeting and the Executive Meeting, 0.82 before 0.79.
C6_BothMeetings ==
    Scenario6 =>
        \E i, j \in 1..Len(actions) :
            /\ i < j
            /\ actions[i].title = "Negotiation Meeting" /\ actions[i].priority = 1
            /\ actions[i].confidence = 82
            /\ actions[j].title = "Executive Meeting" /\ actions[j].priority = 1
            /\ actions[j].confidence = 79

\* C6 amended: a negotiation intent worth 120000 gets the Negotiation Meeting
\* (priority 1, confidence 0.82) alone; the Executive Meeting is suppressed.
C6_NegotiationMeetingOnly ==
    Scenario6 =>
        /\ Len(actions) = 1
        /\ actions[1].title = "Negotiation Meeting"
        /\ actions[1].type = "meeting"
        /\ actions[1].priority = 1
        /\ actions[1].confidence = 82
        /\ Titled("Executive Meeting") = {}

\* the scenario was evaluated
C6_Witness == Scenario6 /\ Len(actions) = 1

InsightsTitled(title) == {i \in 1..Len(insights) : insights[i].title = title}

\* the age of the last update exceeds n whole days, so its ceiling in days does
AgedOver(n) == now - intentData.updated_at > n * HoursPerDay

\* C13: the 'High Conversion Probability Detected' insight (behavioural,
\* confidence 0.92, impact high) is emitted exactly for qualification intents
\* with probability above 0.8, and once.
C13_HighConversionProbability ==
    Evaluated =>
        LET hits == InsightsTitled("High Conversion Probability Detected")
        IN  /\ (intentData.stage = "qualification" /\ intentData.probability > 80)
                   => Cardinality(hits) = 1
            /\ (intentData.stage # "qualification" \/ intentData.probability <= 80)
                   => hits = {}
            /\ \A i \in hits :
                   /\ insights[i].type = "behavioral"
                   /\ insights[i].confidence = 92
                   /\ insights[i].impact = "high"

\* qualification at 0.81 has the insight
C13_Witness ==
    /\ Evaluated
    /\ intentData.stage = "qualification" /\ intentData.probability = 81
    /\ Cardinality(InsightsTitled("High Conversion Probability Detected")) = 1

\* C16: leaving the value rule's Executive Meeting aside, the list holds at most
\* one action, fixed by stage, probability and days in stage: Discovery Call
\* (2, 0.85) for discovery below 0.3, Send Proposal (proposal, 1, 0.91, due in 3
\* days) for qualification above 0.7, Proposal Follow-up (1, 0.88) for proposal
\* after more than 14 days, Negotiation Meeting (1, 0.82) for negotiation, and
\* nothing otherwise.
C16_StageRule ==
    Evaluated =>
        LET staged == {i \in 1..Len(actions) : actions[i].title # "Executive Meeting"}
            Only(title, priority, confidence) ==
                /\ Cardinality(staged) = 1
                /\ \A i \in staged :
                       /\ actions[i].title = title
                       /\ actions[i].priority = priority
                       /\ actions[i].confidence = confidence
        IN  CASE intentData.stage = "discovery" /\ intentData.probability < 30 ->
                   Only("Discovery Call", 2, 85)
              [] intentData.stage = "qualification" /\ intentData.probability > 70 ->
                   /\ Only("Send Proposal", 1, 91)
                   /\ \A i \in staged :
                          /\ actions[i].type = "proposal"
                          /\ actions[i].due_date = <<now + 3 * HoursPerDay>>
              [] intentData.stage = "proposal" /\ AgedOver(14) ->
                   Only("Proposal Follow-up", 1, 88)
              [] intentData.stage = "negotiation" ->
                   Only("Negotiation Meeting", 1, 82)
              [] OTHER -> staged = {}

\* a qualification intent at 0.71 got the proposal due in three days, one at
\* exactly 0.7 would not
C16_Witness ==
    /\ Evaluated
    /\ intentData.stage = "qualification" /\ intentData.probability = 71
    /\ intentData.value = 0
    /\ Len(actions) = 1
    /\ actions[1].title = "Send Proposal"
    /\ actions[1].due_date = <<now + 72>>

\* the close date lies fewer than 30 whole days ahead, counted by ceiling
ClosesWithin(n) ==
    /\ intentData.expected_close_date # <<>>
    /\ intentData.expected_close_date[1] - now <= (n - 1) * HoursPerDay

\* C17: the 'High-Value Deal Closing Soon' insight (predictive, confidence 0.85,
\* impact high) is emitted exactly when value > 50000, a close date is set and
\* the days to it, rounded up, are fewer than 30; it carries that number.
C17_ClosingSoon ==
    Evaluated =>
        LET hits == InsightsTitled("High-Value Deal Closing Soon")
        IN  /\ (intentData.value > 50000 /\ ClosesWithin(30)) => Cardinality(hits) = 1
            /\ ~(intentData.value > 50000 /\ ClosesWithin(30)) => hits = {}
            /\ \A i \in hits :
                   LET n == insights[i].metadata.days_to_close
                       ahead == intentData.expected_close_date[1] - now
                   IN  /\ insights[i].type = "predictive"
                       /\ insights[i].confidence = 85
                       /\ insights[i].impact = "high"
                       /\ n < 30
                       /\ (n - 1) * HoursPerDay < ahead /\ ahead <= n * HoursPerDay

\* a deal worth 50001 closing 20 days out carries days_to_close = 20
C17_Witness ==
    /\ Evaluated
    /\ intentData.value = 50001
    /\ intentData.expected_close_date = <<now + 20 * HoursPerDay>>
    /\ \E i \in 1..Len(insights) :
           /\ insights[i].title = "High-Value Deal Closing Soon"
           /\ insights[i].metadata.days_to_close = 20

\* C18: the 'Extended Stage Duration' insight (contextual, confidence 0.78,
\* impact medium) is emitted exactly when the stage is not discovery and the days
\* since the last update, rounded up at evaluation time, exceed 30; the three
\* insight rules are independent: an intent matching k of them gets k insights.
C18_ExtendedStageDuration ==
    Evaluated =>
        LET hits == InsightsTitled("Extended Stage Duration")
            matching ==
                {rule \in {"behavioral", "predictive", "contextual"} :
                    \/ /\ rule = "behavioral"
                       /\ intentData.stage = "qualification"
                       /\ intentData.probability > 80
                    \/ /\ rule = "predictive"
                       /\ intentData.value > 50000 /\ ClosesWithin(30)
                    \/ /\ rule = "contextual"
                       /\ intentData.stage # "discovery" /\ AgedOver(30)}
        IN  /\ (intentData.stage # "discovery" /\ AgedOver(30)) => Cardinality(hits) = 1
            /\ (intentData.stage = "discovery" \/ ~AgedOver(30)) => hits = {}
            /\ \A i \in hits :
                   LET n == insights[i].metadata.days_in_stage
                       age == now - intentData.updated_at
                   IN  /\ insights[i].type = "contextual"
                       /\ insights[i].confidence = 78
                       /\ insights[i].impact = "medium"
                       /\ (n - 1) * HoursPerDay < age /\ age <= n * HoursPerDay
            /\ Len(insights) = Cardinality(matching)
            /\ {insights[i].type : i \in 1..Len(insights)} = matching

\* an intent 30 days and one hour in qualification matches all three rules
C18_Witness ==
    /\ Evaluated
    /\ intentData.stage = "qualification"
    /\ now - intentData.updated_at = 30 * HoursPerDay + 1
    /\ Len(insights) = 3
    /\ \E i \in 1..3 :
           /\ insights[i].title = "Extended Stage Duration"
           /\ insights[i].metadata.days_in_stage = 31

\* C19: on every record with one of the six stages, a probability in [0,1] and
\* a value >= 0, with or without a close date, both rule evaluations return a
\* list and neither throws; without a close date only the closing-soon rule is
\* skipped.
C19_RulesNeverFail ==
    /\ rulePc # "threw"
    /\ Evaluated =>
           /\ Len(insights) \in 0..3
           /\ Len(actions) \in 0..2
           /\ intentData.expected_close_date = <<>> =>
                  /\ InsightsTitled("High-Value Deal Closing Soon") = {}
                  /\ (intentData.stage = "qualification" /\ intentData.probability > 80)
                         => InsightsTitled("High Conversion Probability Detected") # {}
                  /\ (intentData.stage # "discovery" /\ AgedOver(30))
                         => InsightsTitled("Extended Stage Duration") # {}

\* a valuable intent without close date got its other two insights and an action
C19_Witness ==
    /\ Evaluated
    /\ intentData.expected_close_date = <<>>
    /\ intentData.value = 120000
    /\ Len(insights) = 2
    /\ Len(actions) = 2

-----------------------------------------------------------------------------
(* Storage: UPDATE on intents and the stage-transition audit trigger *)

TransitionEvent(old, new) ==
    [org_id |-> new.org_id, entity_type |-> "intent", entity_id |-> new.id,
     event_type |-> "stage_transition",
     data |-> [from_stage |-> old.stage, to_stage |-> new.stage,
               probability_change |-> new.probability - old.probability]]

\* mutant: the trigger has no WHEN clause
TriggerFiresOnEveryStageUpdate(setsStage, old, new) == setsStage

\* AFTER UPDATE OF stage ... WHEN (OLD.stage IS DISTINCT FROM NEW.stage)
TriggerFires(setsStage, old, new) == setsStage /\ old.stage # new.stage

\* validate_intent_stage_transition: INSERT INTO event_log
Logged(log, old, new) == Append(log, TransitionEvent(old, new))

\* the row after SET stage = ..., probability = ... and the updated_at trigger
Updated(old, setStage, setProbability, t) ==
    [old EXCEPT !.stage = IF setStage = <<>> THEN @ ELSE setStage[1],
                !.probability = IF setProbability = <<>> THEN @ ELSE setProbability[1],
                !.updated_at = t]

MaxUpdates == 3
DbProbabilities == {30, 80}

DbIntents ==
    <<[id |-> 1, org_id |-> "orgA", stage |-> "discovery", probability |-> 30,
       value |-> 100, updated_at |-> 0, metadata |-> "{}"],
      [id |-> 2, org_id |-> "orgB", stage |-> "proposal", probability |-> 80,
       value |-> 200, updated_at |-> 0, metadata |-> "{}"]>>

DbInit ==
    /\ intentData = NoIntent
    /\ now = Now
    /\ actions = <<>>
    /\ insights = <<>>
    /\ rulePc = "off"
    /\ currentOrgId = ""
    /\ measurements = <<>>
    /\ ops = [r \in Requests |-> Idle]
    /\ intents = DbIntents
    /\ event_log = <<>>
    /\ updates = <<>>
    /\ TelIdle
    /\ pages = NoWalk

\* UPDATE intents SET [stage = s] [, probability = p] WHERE id = i, run under
\* tenant context ctx: the isolation policy hides the rows of every other tenant,
\* and lets the trigger insert the event of a row of ctx
UpdateIntent(ctx, i, setStage, setProbability) ==
    /\ Len(updates) < MaxUpdates
    /\ setStage # <<>> \/ setProbability # <<>>
    /\ WithId(Visible(intents, ctx), intents[i].id) # <<>>
    /\ LET old == intents[i]
           new == Updated(old, setStage, setProbability, now)
       IN  /\ intents' = [intents EXCEPT ![i] = new]
           /\ event_log' = IF TriggerFires(setStage # <<>>, old, new)
                           THEN Logged(event_log, old, new) ELSE event_log
           /\ updates' = Append(updates, [old |-> old, new |-> new])
    /\ UNCHANGED <<ruleVars, svcVars, telVars, clientVars>>

DbNext ==
    \E ctx \in Orgs, i \in 1..Len(intents) :
        \E setStage \in {<<>>} \cup {<<s>> : s \in Stages},
           setProbability \in {<<>>} \cup {<<p>> : p \in DbProbabilities} :
            UpdateIntent(ctx, i, setStage, setProbability)

SpecDb == DbInit /\ [][DbNext]_vars

-----------------------------------------------------------------------------
(* Properties of the storage specification *)

\* the applied updates that changed the stage, in order
RECURSIVE StageChanging(_)
StageChanging(us) ==
    IF us = <<>> THEN <<>>
    ELSE IF Head(us).old.stage # Head(us).new.stage
         THEN <<Head(us)>> \o StageChanging(Tail(us))
         ELSE StageChanging(Tail(us))

\* C10: the event log holds exactly one stage_transition row per stage-changing
\* update, in order, with the intent's id and tenant, the stages before and after
\* and the probability delta; updates that keep the stage add nothing.
C10_OneEventPerTransition ==
    LET changes == StageChanging(updates)
    IN  /\ Len(event_log) = Len(changes)
        /\ \A k \in 1..Len(changes) :
               LET u == changes[k] e == event_log[k]
               IN  /\ e.entity_type = "intent"
                   /\ e.event_type = "stage_transition"
                   /\ e.entity_id = u.old.id
                   /\ e.org_id = u.old.org_id
                   /\ e.data.from_stage = u.old.stage
                   /\ e.data.to_stage = u.new.stage
                   /\ e.data.probability_change =
                          u.new.probability - u.old.probability
        /\ \A i \in 1..Len(intents) :
               Cardinality({k \in 1..Len(event_log) :
                               event_log[k].entity_id = intents[i].id}) =
               Cardinality({k \in 1..Len(updates) :
                               /\ updates[k].old.id = intents[i].id
                               /\ updates[k].old.stage # updates[k].new.stage})

\* three updates of one intent: two changed its stage, one re-set the same stage
C10_Witness ==
    /\ Len(updates) = 3
    /\ Len(event_log) = 2
    /\ \A k \in 1..3 : updates[k].old.id = 1
    /\ updates[2].old.stage = updates[2].new.stage
    /\ updates[2].old.probability # updates[2].new.probability
    /\ event_log[2].data.from_stage = "closed-lost"
    /\ event_log[2].data.to_stage = "discovery"
    /\ event_log[2].data.probability_change = -50

-----------------------------------------------------------------------------
(* Monitor specification: record calls of two requests on a buffer near its cap *)

MaxRecords == 4

\* the request context whose orgId tags the samples of request r
MonitorOrg(r) == IF r = "r1" THEN "orgA" ELSE "orgB"

\* the buffer after k record calls made before the modelled ones
Prefilled(k) ==
    [i \in 1..k |->
        [operation |-> "intent.list", orgId |-> "orgA", timestamp |-> Now - k + i]]

MonitorInit ==
    /\ intentData = NoIntent
    /\ now = Now
    /\ actions = <<>>
    /\ insights = <<>>
    /\ rulePc = "off"
    /\ currentOrgId = ""
    /\ \E k \in {0, MaxMeasurements - 2, MaxMeasurements} :
           /\ measurements = Prefilled(k)
           /\ recordCalls = Prefilled(k)
    /\ ops = [r \in Requests |-> Idle]
    /\ intents = <<>>
    /\ event_log = <<>>
    /\ updates = <<>>
    /\ logCall = NoLogCall
    /\ emitted = <<>>
    /\ p95 = NoP95
    /\ span = NoSpan
    /\ pages = NoWalk

\* an operation of request r records its sample
Record(r) ==
    /\ now < Now + MaxRecords
    /\ \E operation \in {"intent.get", "intent.get.error"} :
         LET sample == [operation |-> operation, orgId |-> MonitorOrg(r),
                        timestamp |-> now]
         IN  /\ measurements' = record(measurements, sample)
             /\ recordCalls' = Append(recordCalls, sample)
    /\ now' = now + 1
    /\ UNCHANGED <<intentData, actions, insights, rulePc, currentOrgId, ops,
                   dbVars, logCall, emitted, p95, span, clientVars>>

MonitorNext == \E r \in Requests : Record(r)

SpecMonitor == MonitorInit /\ [][MonitorNext]_vars

\* C14: after any sequence of record calls, interleaved between requests or
\* not, the buffer holds the most recent min(n, 1000) of the n recorded
\* samples, in recording order.
C14_BufferKeepsNewest ==
    LET n == Len(recordCalls)
        kept == Min(n, 1000)
    IN  /\ Len(measurements) = kept
        /\ \A i \in 1..kept : measurements[i] = recordCalls[n - kept + i]

\* 1002 samples recorded, the last two by different requests: the first two
\* were dropped
C14_Witness ==
    /\ Len(recordCalls) = 1002
    /\ Len(measurements) = 1000
    /\ measurements[1] = recordCalls[3]
    /\ measurements[999].orgId = "orgA"
    /\ measurements[1000].orgId = "orgB"

-----------------------------------------------------------------------------
(* Logger specification: one call of debug / info / warn / error *)

LogValues == {"", "alice", "bob"}

\* every object with some of the keys, valued in values
Objects(keys, values) == UNION {[ks -> values] : ks \in SUBSET keys}

\* logger contexts: a request id, with or without an email
LogContexts ==
    {Spread([k \in {"requestId"} |-> "req-1"], o) : o \in Objects({"email"}, LogValues)}

\* extra data: flat PII fields, with or without a nested user object
LogExtras ==
    {Spread(flat, nested) :
        flat \in Objects({"email", "password"}, LogValues),
        nested \in Objects({"user"}, Objects({"email"}, {"alice", "bob"}) \ {<<>>})}

LogCalls ==
    [context : LogContexts, level : {"debug", "info", "warn", "error"},
     message : {"Operation failed"}, extra : LogExtras]

LoggerInit ==
    /\ intentData = NoIntent
    /\ now = Now
    /\ actions = <<>>
    /\ insights = <<>>
    /\ rulePc = "off"
    /\ currentOrgId = ""
    /\ measurements = <<>>
    /\ ops = [r \in Requests |-> Idle]
    /\ intents = <<>>
    /\ event_log = <<>>
    /\ updates = <<>>
    /\ recordCalls = <<>>
    /\ logCall \in LogCalls
    /\ emitted = <<>>
    /\ p95 = NoP95
    /\ span = NoSpan
    /\ pages = NoWalk

\* Logger.debug / info / warn / error: one line on the console
Log ==
    /\ emitted = <<>>
    /\ emitted' = <<LogLine(logCall, now)>>
    /\ UNCHANGED <<ruleVars, svcVars, dbVars, recordCalls, logCall, p95, span,
                   clientVars>>

LoggerNext == Log

SpecLogger == LoggerInit /\ [][LoggerNext]_vars

\* an object with the value of every PII-named field blanked, nested ones too
Blanked(obj) ==
    [k \in DOMAIN obj |->
        IF k \in piiFields THEN "?"
        ELSE IF k = "user"
             THEN [j \in DOMAIN obj[k] |-> IF j \in piiFields THEN "?" ELSE obj[k][j]]
             ELSE obj[k]]

\* two calls that differ at most in the values of PII-named fields
SameButPii(c, d) ==
    /\ c.level = d.level /\ c.message = d.message
    /\ Blanked(c.context) = Blanked(d.context)
    /\ Blanked(c.extra) = Blanked(d.extra)

\* C15: in every emitted entry each field named email, phone, ssn, credit_card
\* or password, from the logger's context or from the call's extra data, reads
\* '***MASKED***', so the entry is the same whatever the field's value was.
C15_PiiMasked ==
    \A i \in 1..Len(emitted) :
        /\ \A k \in piiFields :
               k \in DOMAIN logCall.context \cup DOMAIN logCall.extra =>
                   <<k, "***MASKED***">> \in emitted[i].text
        /\ \A other \in LogCalls :
               SameButPii(other, logCall) => LogLine(other, now) = emitted[i]

-----------------------------------------------------------------------------
(* Percentile specification: one getP95 call on a buffer *)

MaxSamples == 2

P95Samples ==
    [operation : {"intent.get", "intent.list"}, duration : {10, 20, 30},
     timestamp : {Now - 6, Now - 1}]

\* every buffer of at most n of the samples
RECURSIVE Buffers(_)
Buffers(n) ==
    IF n = 0 THEN {<<>>}
    ELSE LET shorter == Buffers(n - 1)
         IN  shorter \cup {Append(b, m) : b \in shorter, m \in P95Samples}

\* n samples of 'test-p95' with durations n down to 1, after a sample of the
\* same operation recorded long ago and before one of another operation
Ramp(n) ==
    <<[operation |-> "test-p95", duration |-> 999, timestamp |-> Now - 100]>>
    \o [i \in 1..n |->
           [operation |-> "test-p95", duration |-> n + 1 - i, timestamp |-> Now - 1]]
    \o <<[operation |-> "intent.get", duration |-> 1000, timestamp |-> Now - 1]>>

P95Init ==
    /\ intentData = NoIntent
    /\ now = Now
    /\ actions = <<>>
    /\ insights = <<>>
    /\ rulePc = "off"
    /\ currentOrgId = ""
    /\ measurements \in Buffers(MaxSamples) \cup {Ramp(20), Ramp(100)}
    /\ ops = [r \in Requests |-> Idle]
    /\ intents = <<>>
    /\ event_log = <<>>
    /\ updates = <<>>
    /\ TelIdle
    /\ pages = NoWalk

\* PerformanceMonitor.getP95(operation, timeWindowMs)
GetP95(operation, timeWindow) ==
    /\ ~p95.called
    /\ p95' = [operation |-> operation, timeWindow |-> timeWindow,
               result |-> getP95(measurements, operation, timeWindow, now),
               called |-> TRUE]
    /\ UNCHANGED <<ruleVars, svcVars, dbVars, recordCalls, logCall, emitted, span,
                   clientVars>>

P95Next ==
    \E operation \in {"intent.get", "intent.list", "test-p95"}, timeWindow \in {3, 10} :
        GetP95(operation, timeWindow)

SpecP95 == P95Init /\ [][P95Next]_vars

\* the buffer positions holding a sample of the queried operation in the window
Matching ==
    {i \in 1..Len(measurements) :
        /\ measurements[i].operation = p95.operation
        /\ measurements[i].timestamp > now - p95.timeWindow}

\* C21: getP95 returns null exactly when no sample of the operation lies in the
\* window, and otherwise the matching duration of rank ceil(0.95 n) in ascending
\* order; samples of other operations have no part in it.
C21_NearestRankP95 ==
    p95.called =>
        LET n == Cardinality(Matching)
        IN  /\ p95.result = <<>> <=> n = 0
            /\ n > 0 =>
                   LET v == p95.result[1]
                       below == Cardinality({i \in Matching : measurements[i].duration < v})
                       atMost == Cardinality({i \in Matching : measurements[i].duration <= v})
                   IN  /\ \E i \in Matching : measurements[i].duration = v
                       /\ \E rank \in 1..n :
                              /\ 100 * rank >= 95 * n
                              /\ 100 * (rank - 1) < 95 * n
                              /\ below < rank /\ rank <= atMost

\* durations 1..100 give 95
C21_Witness ==
    /\ p95.called
    /\ p95.operation = "test-p95"
    /\ Cardinality(Matching) = 100
    /\ p95.result = <<95>>

-----------------------------------------------------------------------------
(* Paging specification: a caller follows the cursors of a list operation *)

WalkLimits == {<<>>, <<1>>, <<2>>}

PagingInit ==
    /\ intentData = NoIntent
    /\ now = Now
    /\ actions = <<>>
    /\ insights = <<>>
    /\ rulePc = "off"
    /\ currentOrgId = ""
    /\ measurements = <<>>
    /\ ops = [r \in Requests |-> Idle]
    /\ intents = SvcIntents
    /\ event_log = <<>>
    /\ updates = <<>>
    /\ TelIdle
    /\ pages = NoWalk

\* the caller asks for the first page: a list call without cursor
StartWalk ==
    /\ ops["r1"].pc = "idle"
    /\ \E kind \in ListKinds, orgId \in Orgs, limit \in WalkLimits :
         LET params == [isObject |-> TRUE, id |-> 0, limit |-> limit, cursor |-> <<>>]
             o == Begin(kind, orgId, "r1", params)
         IN  /\ ops' = [ops EXCEPT !["r1"] = o]
             /\ measurements' = Recorded(measurements, ops["r1"], o)
    /\ UNCHANGED <<currentOrgId, ruleVars, dbVars, telVars, clientVars>>

\* the caller keeps the rows of the page it received and, when has_more is set,
\* repeats the call with the page's cursor; otherwise it is done
Continue ==
    /\ ops["r1"].pc = "done"
    /\ ops["r1"].outcome.status = "ok"
    /\ ~pages.complete
    /\ LET page == ops["r1"].outcome.payload[1]
           got == pages.rows \o [i \in 1..Len(page.data) |-> page.data[i].id]
       IN  IF page.meta.pagination.has_more
           THEN LET o == Begin(ops["r1"].kind, ops["r1"].orgId, "r1",
                               [ops["r1"].params EXCEPT
                                   !.cursor = page.meta.pagination.cursor])
                IN  /\ pages' = [pages EXCEPT !.rows = got]
                    /\ ops' = [ops EXCEPT !["r1"] = o]
                    /\ measurements' = Recorded(measurements, Idle, o)
           ELSE /\ pages' = [rows |-> got, complete |-> TRUE]
                /\ UNCHANGED <<ops, measurements>>
    /\ UNCHANGED <<currentOrgId, ruleVars, dbVars, telVars>>

PagingNext ==
    StartWalk \/ DbSet("r1") \/ DbFetch("r1") \/ DbClear("r1") \/ Continue

SpecPaging == PagingInit /\ [][PagingNext]_vars

\* the rows of the walked table that the caller's tenant owns
WalkedRows == Visible(TableOf(ops["r1"].kind), ops["r1"].orgId)

\* C25: on an unchanging collection, following the cursors of a list operation
\* until has_more is false returns every matching row exactly once.
C25_EveryRowOnce ==
    pages.complete =>
        /\ \A i \in 1..Len(WalkedRows) :
               Cardinality({j \in 1..Len(pages.rows) :
                               pages.rows[j] = WalkedRows[i].id}) = 1
        /\ Len(pages.rows) = Len(WalkedRows)

-----------------------------------------------------------------------------
(* Span specification: one span is tagged, logged to and finished over time *)

MaxTicks == 2
MaxFinishes == 3
MaxLogs == 1

SpanOperations == {"test-operation", "db.query"}
TagKeys == {"test-key", "cached"}
TagValues == {"test-value", "other-value"}

\* this.context.tags[key] = value
setTag(s, key, value) ==
    [s EXCEPT !.tags = [k \in DOMAIN s.tags \cup {key} |->
                           IF k = key THEN value ELSE s.tags[k]]]

\* Object.assign(this.context.tags, tags)
setTags(s, tags) ==
    [s EXCEPT !.tags = [k \in DOMAIN s.tags \cup DOMAIN tags |->
                           IF k \in DOMAIN tags THEN tags[k] ELSE s.tags[k]]]

\* this.context.logs.push({ timestamp: performance.now(), level, message })
log(s, level, message, t) ==
    [s EXCEPT !.logs = Append(@, [timestamp |-> t, level |-> level,
                                  message |-> message])]

\* mutant: a finished span is measured again
finishAgain(s, t) ==
    [s EXCEPT !.finished = TRUE, !.returned = Append(@, t - s.startTime)]

\* Span.finish at performance.now() = t; returned holds the values returned
finish(s, t) ==
    IF s.finished THEN [s EXCEPT !.returned = Append(@, 0)]
    ELSE [s EXCEPT !.finished = TRUE, !.returned = Append(@, t - s.startTime)]

\* new Span(operation): startTime = performance.now(), no tags, no logs
SpanInit ==
    /\ intentData = NoIntent
    /\ now = Now
    /\ actions = <<>>
    /\ insights = <<>>
    /\ rulePc = "off"
    /\ currentOrgId = ""
    /\ measurements = <<>>
    /\ ops = [r \in Requests |-> Idle]
    /\ intents = <<>>
    /\ event_log = <<>>
    /\ updates = <<>>
    /\ recordCalls = <<>> /\ logCall = NoLogCall /\ emitted = <<>>
    /\ p95 = NoP95
    /\ span \in {[NoSpan EXCEPT !.operation = operation, !.startTime = Now] :
                     operation \in SpanOperations}
    /\ pages = NoWalk

\* the monotonic clock performance.now() advances
Tick ==
    /\ now < Now + MaxTicks
    /\ now' = now + 1
    /\ UNCHANGED <<intentData, actions, insights, rulePc, svcVars, dbVars, telVars,
                   clientVars>>

SetTag ==
    /\ \E key \in TagKeys, value \in TagValues : span' = setTag(span, key, value)
    /\ UNCHANGED <<ruleVars, svcVars, dbVars, recordCalls, logCall, emitted, p95,
                   clientVars>>

SetTags ==
    /\ \E value \in TagValues :
         span' = setTags(span, [k \in TagKeys |-> value])
    /\ UNCHANGED <<ruleVars, svcVars, dbVars, recordCalls, logCall, emitted, p95,
                   clientVars>>

SpanLog ==
    /\ Len(span.logs) < MaxLogs
    /\ \E level \in {"info", "error"} : span' = log(span, level, "Test message", now)
    /\ UNCHANGED <<ruleVars, svcVars, dbVars, recordCalls, logCall, emitted, p95,
                   clientVars>>

Finish ==
    /\ Len(span.returned) < MaxFinishes
    /\ span' = finish(span, now)
    /\ UNCHANGED <<ruleVars, svcVars, dbVars, recordCalls, logCall, emitted, p95,
                   clientVars>>

SpanNext == Tick \/ SetTag \/ SetTags \/ SpanLog \/ Finish

SpecSpan == SpanInit /\ [][SpanNext]_vars

\* the span without the record of what finish returned
SpanContext(s) ==
    [operation |-> s.operation, startTime |-> s.startTime, tags |-> s.tags,
     logs |-> s.logs, finished |-> s.finished]

\* C30: the first finish() of a span returns the time elapsed since its start,
\* which is >= 0, and marks the span finished; every later finish() returns 0
\* and leaves the span as it was.
C30_FinishOnce ==
    [][Len(span'.returned) = Len(span.returned) + 1 =>
          LET duration == span'.returned[Len(span'.returned)]
          IN  IF span.finished
              THEN /\ duration = 0
                   /\ SpanContext(span') = SpanContext(span)
              ELSE /\ span.returned = <<>>
                   /\ duration = now - span.startTime
                   /\ duration >= 0
                   /\ span'.finished
                   /\ SpanContext(span') = [SpanContext(span) EXCEPT !.finished = TRUE]]_vars

\* a tagged span finished twice after two ticks: 2, then 0
C30_Witness ==
    /\ span.operation = "test-operation"
    /\ span.finished
    /\ span.tags # <<>>
    /\ now = Now + 2
    /\ span.returned = <<2, 0>>

====
